---------------------------- MODULE Spec2Model ----------------------------
(***************************************************************************)
(* A model of the inspect triage engine (crates inspect-core, inspect-api). *)
(*                                                                         *)
(*   SpecJobs      the HTTP job store and the background review task       *)
(*                 (inspect-api/src/routes.rs, state.rs)                   *)
(*   SpecUntangle  untangle over a list of reviews and dependency edges    *)
(*                 (inspect-core/src/untangle.rs)                          *)
(*   SpecClassify  classify_change over a semantic change                  *)
(*                 (inspect-core/src/classify.rs)                          *)
(*   SpecRisk      compute_risk_score / score_to_level as analyze applies  *)
(*                 them to one review (inspect-core/src/risk.rs)           *)
(*   SpecAnalyze   analyze from the changes and the entity graph to the    *)
(*                 ReviewResult, run twice (inspect-core/src/analyze.rs)   *)
(*   SpecCli       the file, diff and pr commands printing markdown        *)
(*                 (inspect-cli/src/commands, formatters/markdown.rs)      *)
(*   SpecNoise     is_noise_file over a path (inspect-core/src/noise.rs)   *)
(*   SpecRemote    the handlers that analyze a pull request from GitHub    *)
(*                 (routes.rs, inspect-cli/src/commands/pr.rs, github.rs)  *)
(*   SpecJobsFair  SpecJobs with the runtime scheduling every spawned task *)
(*   SpecJson      the JSON formatter over one review                      *)
(*                 (inspect-cli/src/formatters/json.rs, types.rs)          *)
(*   SpecPatch     parse_patch and commentable_lines over a patch text     *)
(*                 (inspect-core/src/patch.rs)                             *)
(*   SpecMcp       concurrent tool calls on the result cache of the MCP    *)
(*                 server (inspect-mcp/src/server.rs)                      *)
(*                                                                         *)
(* Every specification moves its own variables and leaves the others at    *)
(* their initial value.                                                    *)
(***************************************************************************)
EXTENDS Integers, Sequences, FiniteSets, TLC

VARIABLES
    jobs,          \* AppState.jobs: the map job id -> ReviewJob
    pc,            \* position of the background task run_review of each job
    status_log,    \* history: every status written to a job, in order of writing
    get_response,  \* the last answer of GET /v1/review/:id, <<id, code>>
    reviews,       \* untangle: its argument reviews (the entity reviews, in order)
    dependency_edges, \* untangle: its argument dependency_edges, <<from, to>> pairs
    groups,        \* untangle: the Vec<ChangeGroup> it returned
    u_pc,          \* untangle: "input" before the call, "done" after it
    change,        \* classify: the SemanticChange analyze looks at
    c_review,      \* classify: the fields of the EntityReview analyze built from it
    c_pc,          \* classify: "input" before analyze classified the change, "done" after
    r_review,      \* risk: the EntityReview analyze scores
    total_entities, \* risk: total_graph_entities, the node count of the graph
    r_pc,          \* risk: "input" before analyze scored the review, "done" after
    a_changes,     \* analyze: diff.changes, the changes the differ emitted
    a_graph,       \* analyze: the entity graph built from the source files
    a_results,     \* analyze: the ReviewResult of each run on these inputs so far
    a_pc,          \* analyze: "input", then "once" and "twice" after as many runs
    cli_args,      \* CLI: the command and its arguments
    cli_out,       \* CLI: what the command printed
    cli_pc,        \* CLI: "input" before the command ran, "done" after
    n_path,        \* noise filter: the path is_noise_file is asked about
    n_result,      \* noise filter: its answer
    n_pc,          \* noise filter: "input" before the call, "done" after
    rm_entry,      \* remote analysis: the handler that runs it
    rm_files,      \* remote analysis: the files of the pull request at GitHub
    rm_visible,    \* remote analysis: visible_files
    rm_fetches,    \* remote analysis: the contents requested so far, <<filename, ref>>
    rm_pairs,      \* remote analysis: file_pairs
    rm_analyzed,   \* remote analysis: the pairs handed to analyze_remote, if any
    rm_pc,         \* remote analysis: the position of the handler
    j_review,      \* JSON: the enum-valued fields of the review to serialize
    j_out,         \* JSON: the strings written for them
    j_pc,          \* JSON: "input" before print, "done" after
    p_patch,       \* patch: the lines of the patch text
    p_hunks,       \* patch: the Vec<DiffHunk> parse_patch returned
    p_commentable, \* patch: the Vec<u64> commentable_lines returned
    p_pc,          \* patch: "input" before the calls, "done" after
    m_cache,       \* MCP: InspectServer.cache, None or Some(CachedResult)
    m_calls,       \* MCP: each tool call's key, position, local result and answer
    m_runs         \* MCP: how many analyses have been run so far

vars == <<jobs, pc, status_log, get_response,
          reviews, dependency_edges, groups, u_pc,
          change, c_review, c_pc,
          r_review, total_entities, r_pc,
          a_changes, a_graph, a_results, a_pc,
          cli_args, cli_out, cli_pc,
          n_path, n_result, n_pc,
          rm_entry, rm_files, rm_visible, rm_fetches, rm_pairs, rm_analyzed, rm_pc,
          j_review, j_out, j_pc,
          p_patch, p_hunks, p_commentable, p_pc,
          m_cache, m_calls, m_runs>>

(***************************************************************************)
(* Bounds                                                                  *)
(***************************************************************************)
MaxJobs == 2

\* untangle: the longest list of reviews and the longest list of edges
MaxReviews == 3

MaxEdges == 2

\* classify_change: the most lines a content has
MaxLines == 2

\* compute_risk_score: the largest blast_radius, dependent_count and
\* total_entities
MaxBlast == 2

MaxDependents == 4

MaxTotal == 2

\* analyze: the most changes of a diff
MaxChanges == 2

\* is_noise_file: the most directories a path has before its file name
MaxDepth == 2

\* remote analysis: the most files of a pull request
MaxFiles == 2

\* the longest patch, in lines
MaxPatchLines == 4

\* MCP: the number of tool calls
MaxCalls == 3

\* analyze: the node count of the graph, and the number of unchanged
\* entities that depend on its hub entity, moderate or large
GraphEntities == 2100

ModerateFanIn == 100

LargeFanIn == 2000

(***************************************************************************)
(* The job store: inspect-api/src/state.rs, routes.rs                      *)
(***************************************************************************)
JobIds == 1..MaxJobs

None == "None"

JobStatus == {"Pending", "Analyzing", "Reviewing", "Complete", "Failed"}

\* The job create_review builds: status Pending, no result, no error.
NewJob == [status |-> "Pending", result |-> None, error |-> None]

\* HashMap::insert
insert(js, id, job) ==
    [i \in DOMAIN js \cup {id} |-> IF i = id THEN job ELSE js[i]]

\* update_status: writes the status when the job is in the map.
update_status(js, id, status) ==
    IF id \in DOMAIN js THEN [js EXCEPT ![id].status = status] ELSE js

\* fail_job (below) that writes the status and leaves the error unset
fail_job_without_error(js, id, error) ==
    IF id \in DOMAIN js THEN [js EXCEPT ![id].status = "Failed"] ELSE js

\* fail_job: writes status Failed and the error when the job is in the map.
fail_job(js, id, error) ==
    IF id \in DOMAIN js
    THEN [js EXCEPT ![id].status = "Failed", ![id].error = error]
    ELSE js

\* The tail of run_review: writes status Complete and the response.
store_result(js, id, response) ==
    IF id \in DOMAIN js
    THEN [js EXCEPT ![id].status = "Complete", ![id].result = response]
    ELSE js

\* history of status writes: a write is logged only when the job is in the map
LogWrite(log, js, id, status) ==
    IF id \in DOMAIN js THEN [log EXCEPT ![id] = Append(@, status)] ELSE log

\* The variables of the other components, idle.
IdleUntangle ==
    /\ reviews = << >>
    /\ dependency_edges = << >>
    /\ groups = << >>
    /\ u_pc = "idle"

untangleVars == <<reviews, dependency_edges, groups, u_pc>>

IdleClassify ==
    /\ change = << >>
    /\ c_review = << >>
    /\ c_pc = "idle"

classifyVars == <<change, c_review, c_pc>>

IdleRisk ==
    /\ r_review = << >>
    /\ total_entities = 0
    /\ r_pc = "idle"

riskVars == <<r_review, total_entities, r_pc>>

IdleAnalyze ==
    /\ a_changes = << >>
    /\ a_graph = << >>
    /\ a_results = << >>
    /\ a_pc = "idle"

analyzeVars == <<a_changes, a_graph, a_results, a_pc>>

IdleCli ==
    /\ cli_args = << >>
    /\ cli_out = << >>
    /\ cli_pc = "idle"

cliVars == <<cli_args, cli_out, cli_pc>>

IdleNoise ==
    /\ n_path = << >>
    /\ n_result = FALSE
    /\ n_pc = "idle"

noiseVars == <<n_path, n_result, n_pc>>

IdleRemote ==
    /\ rm_entry = "none"
    /\ rm_files = << >>
    /\ rm_visible = << >>
    /\ rm_fetches = {}
    /\ rm_pairs = << >>
    /\ rm_analyzed = <<"None">>
    /\ rm_pc = "idle"

remoteVars == <<rm_entry, rm_files, rm_visible, rm_fetches, rm_pairs, rm_analyzed, rm_pc>>

IdleJson ==
    /\ j_review = << >>
    /\ j_out = << >>
    /\ j_pc = "idle"

jsonVars == <<j_review, j_out, j_pc>>

IdlePatch ==
    /\ p_patch = << >>
    /\ p_hunks = << >>
    /\ p_commentable = << >>
    /\ p_pc = "idle"

patchVars == <<p_patch, p_hunks, p_commentable, p_pc>>

IdleMcp ==
    /\ m_cache = <<"None">>
    /\ m_calls = << >>
    /\ m_runs = 0

mcpVars == <<m_cache, m_calls, m_runs>>

\* the formatter, the patch parser and the MCP server
IdleOutputs == IdleJson /\ IdlePatch /\ IdleMcp

outputVars == <<jsonVars, patchVars, mcpVars>>

\* the components that stand after the risk scorer in this module
IdleLater == IdleAnalyze /\ IdleCli /\ IdleNoise /\ IdleRemote /\ IdleOutputs

laterVars == <<analyzeVars, cliVars, noiseVars, remoteVars, outputVars>>

jobVars == <<jobs, pc, status_log, get_response>>

nonJobVars == <<untangleVars, classifyVars, riskVars, laterVars>>

IdleJobs ==
    /\ jobs = << >>
    /\ pc = << >>
    /\ status_log = << >>
    /\ get_response = <<0, "none">>

InitJobs ==
    /\ IdleUntangle
    /\ IdleClassify
    /\ IdleRisk
    /\ IdleLater
    /\ jobs = << >>
    /\ pc = [id \in JobIds |-> "none"]
    /\ status_log = [id \in JobIds |-> << >>]
    /\ get_response = <<0, "none">>

\* CreateReview (below) that spawns the task and never inserts the job
CreateReviewWithoutInsert(id) ==
    /\ id \notin DOMAIN jobs
    /\ pc[id] = "none"
    /\ pc' = [pc EXCEPT ![id] = "start"]
    /\ UNCHANGED <<jobs, status_log, get_response, nonJobVars>>

\* POST /v1/review: a fresh uuid, the job inserted as Pending, the task spawned.
CreateReview(id) ==
    /\ id \notin DOMAIN jobs
    /\ pc[id] = "none"
    /\ jobs' = insert(jobs, id, NewJob)
    /\ status_log' = [status_log EXCEPT ![id] = <<"Pending">>]
    /\ pc' = [pc EXCEPT ![id] = "start"]
    /\ UNCHANGED <<get_response, nonJobVars>>

\* GET /v1/review/:id
GetReview(id) ==
    /\ get_response' = <<id, IF id \in DOMAIN jobs THEN "200" ELSE "404">>
    /\ UNCHANGED <<jobs, pc, status_log, nonJobVars>>

\* run_review: update_status(Analyzing)
SetAnalyzing(id) ==
    /\ pc[id] = "start"
    /\ jobs' = update_status(jobs, id, "Analyzing")
    /\ status_log' = LogWrite(status_log, jobs, id, "Analyzing")
    /\ pc' = [pc EXCEPT ![id] = "auth"]
    /\ UNCHANGED <<get_response, nonJobVars>>

\* run_review: GitHubClient::new() succeeded
AuthOk(id) ==
    /\ pc[id] = "auth"
    /\ pc' = [pc EXCEPT ![id] = "read_job"]
    /\ UNCHANGED <<jobs, status_log, get_response, nonJobVars>>

\* AuthFailed without the return after fail_job: the task goes on
AuthFailedNoReturn(id) ==
    /\ pc[id] = "auth"
    /\ jobs' = fail_job(jobs, id, "GitHub auth failed")
    /\ status_log' = LogWrite(status_log, jobs, id, "Failed")
    /\ pc' = [pc EXCEPT ![id] = "read_job"]
    /\ UNCHANGED <<get_response, nonJobVars>>

\* run_review: GitHubClient::new() failed: fail_job and return
AuthFailed(id) ==
    /\ pc[id] = "auth"
    /\ jobs' = fail_job(jobs, id, "GitHub auth failed")
    /\ status_log' = LogWrite(status_log, jobs, id, "Failed")
    /\ pc' = [pc EXCEPT ![id] = "done"]
    /\ UNCHANGED <<get_response, nonJobVars>>

\* run_review: reads repo and pr_number of the job (jobs.get(&job_id).unwrap())
ReadJob(id) ==
    /\ pc[id] = "read_job"
    /\ pc' = [pc EXCEPT ![id] = IF id \in DOMAIN jobs THEN "get_pr" ELSE "panicked"]
    /\ UNCHANGED <<jobs, status_log, get_response, nonJobVars>>

\* run_review: client.get_pr succeeded
GetPrOk(id) ==
    /\ pc[id] = "get_pr"
    /\ pc' = [pc EXCEPT ![id] = "analyze"]
    /\ UNCHANGED <<jobs, status_log, get_response, nonJobVars>>

\* run_review: client.get_pr failed: fail_job and return
GetPrFailed(id) ==
    /\ pc[id] = "get_pr"
    /\ jobs' = fail_job(jobs, id, "Failed to fetch PR")
    /\ status_log' = LogWrite(status_log, jobs, id, "Failed")
    /\ pc' = [pc EXCEPT ![id] = "done"]
    /\ UNCHANGED <<get_response, nonJobVars>>

\* run_review: noise filter, get_file_pairs, analyze_remote succeeded
AnalyzeOk(id) ==
    /\ pc[id] = "analyze"
    /\ pc' = [pc EXCEPT ![id] = "set_reviewing"]
    /\ UNCHANGED <<jobs, status_log, get_response, nonJobVars>>

\* run_review: analyze_remote failed: fail_job and return
AnalyzeFailed(id) ==
    /\ pc[id] = "analyze"
    /\ jobs' = fail_job(jobs, id, "Analysis failed")
    /\ status_log' = LogWrite(status_log, jobs, id, "Failed")
    /\ pc' = [pc EXCEPT ![id] = "done"]
    /\ UNCHANGED <<get_response, nonJobVars>>

\* run_review: update_status(Reviewing)
SetReviewing(id) ==
    /\ pc[id] = "set_reviewing"
    /\ jobs' = update_status(jobs, id, "Reviewing")
    /\ status_log' = LogWrite(status_log, jobs, id, "Reviewing")
    /\ pc' = [pc EXCEPT ![id] = "fetch_diff"]
    /\ UNCHANGED <<get_response, nonJobVars>>

\* run_review: fetch_pr_diff succeeded
FetchDiffOk(id) ==
    /\ pc[id] = "fetch_diff"
    /\ pc' = [pc EXCEPT ![id] = "llm"]
    /\ UNCHANGED <<jobs, status_log, get_response, nonJobVars>>

\* run_review: fetch_pr_diff failed: fail_job and return
FetchDiffFailed(id) ==
    /\ pc[id] = "fetch_diff"
    /\ jobs' = fail_job(jobs, id, "Failed to fetch diff")
    /\ status_log' = LogWrite(status_log, jobs, id, "Failed")
    /\ pc' = [pc EXCEPT ![id] = "done"]
    /\ UNCHANGED <<get_response, nonJobVars>>

\* review_deep_v2 hands truncate_diff this many bytes as max_chars
MaxDiffChars == 80000

\* The raw diff of a pull request, as far as truncate_diff looks at it: its
\* length in bytes, the length of "diff --git " and its highest-scored part,
\* and whether byte max_chars of the diff is a character boundary.
PrDiffs ==
    [len : {MaxDiffChars, MaxDiffChars + 1},
     top_part_len : {MaxDiffChars, MaxDiffChars + 1},
     is_char_boundary : BOOLEAN]

\* prompts::truncate_diff: the whole diff when it is short enough, else the
\* parts that fit, taken by score, else (the first part does not fit) the
\* slice diff[..max_chars], which panics off a character boundary
truncate_diff(diff, max_chars) ==
    IF diff.len <= max_chars THEN <<"Ok", "whole">>
    ELSE IF diff.top_part_len <= max_chars THEN <<"Ok", "parts">>
    ELSE IF diff.is_char_boundary THEN <<"Ok", "prefix">>
    ELSE <<"Panic">>

\* run_review: review_deep_v2 truncates the diff and returns its findings (it
\* absorbs the errors of the LLM calls); a panic ends the spawned task
ReviewLlm(id) ==
    /\ pc[id] = "llm"
    /\ \E diff \in PrDiffs :
           pc' = [pc EXCEPT ![id] = IF truncate_diff(diff, MaxDiffChars)[1] = "Ok"
                                    THEN "store" ELSE "slice_panicked"]
    /\ UNCHANGED <<jobs, status_log, get_response, nonJobVars>>

\* run_review: stores the response, status Complete
StoreResult(id) ==
    /\ pc[id] = "store"
    /\ jobs' = store_result(jobs, id, "response")
    /\ status_log' = LogWrite(status_log, jobs, id, "Complete")
    /\ pc' = [pc EXCEPT ![id] = "done"]
    /\ UNCHANGED <<get_response, nonJobVars>>

NextJobs ==
    \E id \in JobIds :
        \/ CreateReview(id)
        \/ GetReview(id)
        \/ SetAnalyzing(id)
        \/ AuthOk(id)
        \/ AuthFailed(id)
        \/ ReadJob(id)
        \/ GetPrOk(id)
        \/ GetPrFailed(id)
        \/ AnalyzeOk(id)
        \/ AnalyzeFailed(id)
        \/ SetReviewing(id)
        \/ FetchDiffOk(id)
        \/ FetchDiffFailed(id)
        \/ ReviewLlm(id)
        \/ StoreResult(id)

SpecJobs == InitJobs /\ [][NextJobs]_vars

\* the steps of the background task of job id
RunReview(id) ==
    \/ SetAnalyzing(id)
    \/ AuthOk(id)
    \/ AuthFailed(id)
    \/ ReadJob(id)
    \/ GetPrOk(id)
    \/ GetPrFailed(id)
    \/ AnalyzeOk(id)
    \/ AnalyzeFailed(id)
    \/ SetReviewing(id)
    \/ FetchDiffOk(id)
    \/ FetchDiffFailed(id)
    \/ ReviewLlm(id)
    \/ StoreResult(id)

\* The runtime polls every spawned task again and again, the lock of the map
\* is held for a few statements only, and every external call returns: a
\* task that can take a step takes one.
SpecJobsFair == SpecJobs /\ \A id \in JobIds : WF_vars(RunReview(id))

(***************************************************************************)
(* Claims on the job store                                                 *)
(***************************************************************************)
\* The order Pending -> Analyzing -> Reviewing -> (Complete | Failed)
StatusRank(st) ==
    CASE st = "Pending" -> 0
      [] st = "Analyzing" -> 1
      [] st = "Reviewing" -> 2
      [] st = "Complete" -> 3
      [] st = "Failed" -> 3

\* C1: every status write to a job sets a status strictly later in the order
\* Pending -> Analyzing -> Reviewing -> (Complete | Failed) than the status the
\* job had: the statuses written to a job, in order of writing, are strictly
\* increasing in rank (so no status is entered twice), and the job's status is
\* the last one written.
C1_StatusMonotonic ==
    \A id \in DOMAIN jobs :
        /\ Len(status_log[id]) >= 1
        /\ status_log[id][1] = "Pending"
        /\ jobs[id].status = status_log[id][Len(status_log[id])]
        /\ \A i \in 1..(Len(status_log[id]) - 1) :
              StatusRank(status_log[id][i]) < StatusRank(status_log[id][i + 1])

\* C1 witness: a job went through all of Pending, Analyzing, Reviewing and ended
\* Failed, while another one ended Complete.
C1_Witness ==
    \E a, b \in DOMAIN jobs :
        /\ status_log[a] = <<"Pending", "Analyzing", "Reviewing", "Failed">>
        /\ status_log[b] = <<"Pending", "Analyzing", "Reviewing", "Complete">>

(***************************************************************************)
(* The untangler: inspect-core/src/untangle.rs                             *)
(***************************************************************************)
\* entity ids of changed entities, and one id that no review has
EntityIds == {"a", "b", "c", "d"}

\* the edges an edge list is drawn from (with repetition): edges between
\* a, b and c in both directions, a self-edge, and edges with an endpoint, or
\* both, that no review has. The review lists range over every order of every
\* choice of ids, so the edges left out are renamings of these.
EdgePairs ==
    {<<"a", "b">>, <<"b", "a">>, <<"b", "c">>, <<"c", "a">>, <<"a", "a">>,
     <<"a", "z">>, <<"z", "b">>, <<"z", "z">>}

\* sequences over S of length at most n
SeqUpTo(S, n) == UNION {[1..k -> S] : k \in 0..n}

Range(f) == {f[i] : i \in DOMAIN f}

Injective(f) == \A i, j \in DOMAIN f : f[i] = f[j] => i = j

\* UnionFind::new
UFNew(n) == [parent |-> [i \in 1..n |-> i], rank |-> [i \in 1..n |-> 0]]

\* UnionFind::find, with its path compression: the structure after the call
\* and the root returned
RECURSIVE UFFind(_, _)
UFFind(uf, x) ==
    IF uf.parent[x] # x
    THEN LET r == UFFind(uf, uf.parent[x])
         IN  [uf |-> [r.uf EXCEPT !.parent[x] = r.root], root |-> r.root]
    ELSE [uf |-> uf, root |-> x]

\* UFUnion that links the node a itself, not its root, under the root of b
UFUnionLinkNode(uf, a, b) ==
    LET fa == UFFind(uf, a)
        fb == UFFind(fa.uf, b)
        u  == fb.uf
    IN  IF fa.root = fb.root THEN u ELSE [u EXCEPT !.parent[a] = fb.root]

\* UnionFind::union
UFUnion(uf, a, b) ==
    LET fa == UFFind(uf, a)
        fb == UFFind(fa.uf, b)
        ra == fa.root
        rb == fb.root
        u  == fb.uf
    IN  IF ra = rb THEN u
        ELSE IF u.rank[ra] < u.rank[rb] THEN [u EXCEPT !.parent[ra] = rb]
        ELSE IF u.rank[ra] > u.rank[rb] THEN [u EXCEPT !.parent[rb] = ra]
        ELSE [u EXCEPT !.parent[rb] = ra, !.rank[ra] = @ + 1]

\* id_to_idx: entity_id -> index; collect() keeps the last index of an id
IdToIdx(revs) ==
    [e \in {revs[i].entity_id : i \in DOMAIN revs} |->
        CHOOSE i \in DOMAIN revs :
            /\ revs[i].entity_id = e
            /\ \A j \in DOMAIN revs : revs[j].entity_id = e => j <= i]

\* the loop over dependency_edges, from edge k on
RECURSIVE UnionEdges(_, _, _, _)
UnionEdges(uf, edges, idx, k) ==
    IF k > Len(edges) THEN uf
    ELSE LET from == edges[k][1]
             to   == edges[k][2]
         IN  IF from \in DOMAIN idx /\ to \in DOMAIN idx
             THEN UnionEdges(UFUnion(uf, idx[from], idx[to]), edges, idx, k + 1)
             ELSE UnionEdges(uf, edges, idx, k + 1)

\* groups_map: root -> the indices whose root it is, pushed for i = 1..n
RECURSIVE CollectGroups(_, _, _, _)
CollectGroups(uf, i, n, gm) ==
    IF i > n THEN gm
    ELSE LET f == UFFind(uf, i)
             entry == IF f.root \in DOMAIN gm THEN gm[f.root] ELSE << >>
         IN  CollectGroups(f.uf, i + 1, n,
                 [r \in DOMAIN gm \cup {f.root} |->
                     IF r = f.root THEN Append(entry, i) ELSE gm[r]])

\* the first position (from 0) at which first and s differ, among the
\* positions both have, or -1: the loop over first.bytes().zip(s.bytes())
RECURSIVE FirstMismatch(_, _, _)
FirstMismatch(first, s, i) ==
    IF i >= Len(first) \/ i >= Len(s) THEN -1
    ELSE IF first[i + 1] # s[i + 1] THEN i
    ELSE FirstMismatch(first, s, i + 1)

\* the loop of common_prefix over strings[1..], from the length len so far
RECURSIVE CommonLen(_, _, _)
CommonLen(first, rest, len) ==
    IF rest = << >> THEN len
    ELSE LET len1 == IF Len(rest[1]) < len THEN Len(rest[1]) ELSE len
             i    == FirstMismatch(first, rest[1], 0)
             len2 == IF i >= 0 /\ i < len1 THEN i ELSE len1
         IN  CommonLen(first, Tail(rest), len2)

\* str::rfind('/'): the last position (from 1) of a slash in s, or 0
RECURSIVE RFindSlash(_)
RFindSlash(s) ==
    IF s = << >> THEN 0
    ELSE IF s[Len(s)] = "/" THEN Len(s)
    ELSE RFindSlash(SubSeq(s, 1, Len(s) - 1))

\* common_prefix without the trim to the last slash
common_prefix_untrimmed(strings) ==
    IF strings = << >> THEN << >>
    ELSE SubSeq(strings[1], 1, CommonLen(strings[1], Tail(strings), Len(strings[1])))

\* common_prefix
common_prefix(strings) ==
    IF strings = << >> THEN << >>
    ELSE LET first  == strings[1]
             prefix == SubSeq(first, 1, CommonLen(first, Tail(strings), Len(first)))
             pos    == RFindSlash(prefix)
         IN  IF pos > 0 THEN SubSeq(first, 1, pos) ELSE prefix

\* format!("{} entities", n)
CountLabel(n) == <<ToString(n), " ", "e", "n", "t", "i", "t", "i", "e", "s">>

\* the label of the group of the reviews at indices
GroupLabel(revs, indices) ==
    IF Len(indices) = 1 THEN revs[indices[1]].entity_name
    ELSE LET files  == [k \in 1..Len(indices) |-> revs[indices[k]].file_path]
             common == common_prefix(files)
         IN  IF common = << >> THEN CountLabel(Len(indices)) ELSE common

\* the ChangeGroup built from one value of groups_map (id: its position in
\* the iteration)
BuildGroup(revs, indices, group_id) ==
    [id |-> group_id,
     label |-> GroupLabel(revs, indices),
     entity_ids |-> [k \in 1..Len(indices) |-> revs[indices[k]].entity_id]]

\* insertion of g into a list sorted by size descending, after every group
\* that is not smaller (sort_by is stable)
RECURSIVE InsertBySize(_, _)
InsertBySize(sorted, g) ==
    IF sorted = << >> THEN <<g>>
    ELSE IF Len(sorted[1].entity_ids) >= Len(g.entity_ids)
         THEN <<sorted[1]>> \o InsertBySize(Tail(sorted), g)
         ELSE <<g>> \o sorted

\* groups.sort_by(|a, b| b.entity_ids.len().cmp(&a.entity_ids.len()))
RECURSIVE SortBySize(_)
SortBySize(gs) ==
    IF gs = << >> THEN << >>
    ELSE InsertBySize(SortBySize(SubSeq(gs, 1, Len(gs) - 1)), gs[Len(gs)])

\* the groups with the ids they had before the sort
RenumberNot(gs) == gs

\* group.id = i for the group at position i (from 0)
Renumber(gs) == [k \in DOMAIN gs |-> [gs[k] EXCEPT !.id = k - 1]]

\* the orders in which HashMap::into_values may yield the values of a map
\* with keys K: std's HashMap iterates in an arbitrary order
IterationOrders(K) ==
    {ord \in [1..Cardinality(K) -> K] : Injective(ord)}

\* untangle, given the order ord in which groups_map is iterated
UntangleWith(revs, edges, ord, gm) ==
    Renumber(SortBySize([k \in DOMAIN ord |-> BuildGroup(revs, gm[ord[k]], k - 1)]))

\* GroupsMap whose collecting loop stops one index early
GroupsMapSkipLast(revs, edges) ==
    CollectGroups(UnionEdges(UFNew(Len(revs)), edges, IdToIdx(revs), 1),
                  1, Len(revs) - 1, << >>)

\* groups_map of untangle
GroupsMap(revs, edges) ==
    CollectGroups(UnionEdges(UFNew(Len(revs)), edges, IdToIdx(revs), 1),
                  1, Len(revs), << >>)

\* EntityReview.entity_name of the entity with this id
EntityName(id) ==
    CASE id = "a" -> <<"R", "u", "n">>
      [] id = "b" -> <<"g", "o">>
      [] id = "c" -> <<"C", "f", "g">>
      [] OTHER -> <<"d", "o">>

\* the ways the entities lie in files: "nested" has a and b in the file s/m, c
\* in s/n and d in t/m; "flat" has a and b in the top-level file m, c in the
\* top-level file mx and d in s/m
Layouts == {"nested", "flat"}

\* EntityReview.file_path of the entity with this id
FilePath(layout, id) ==
    IF layout = "nested"
    THEN CASE id = "a" -> <<"s", "/", "m">>
           [] id = "b" -> <<"s", "/", "m">>
           [] id = "c" -> <<"s", "/", "n">>
           [] OTHER -> <<"t", "/", "m">>
    ELSE CASE id = "a" -> <<"m">>
           [] id = "b" -> <<"m">>
           [] id = "c" -> <<"m", "x">>
           [] OTHER -> <<"s", "/", "m">>

\* the inputs: the entity ids of the reviews are pairwise distinct
InitUntangle ==
    /\ IdleJobs
    /\ IdleClassify
    /\ IdleRisk
    /\ IdleLater
    /\ reviews \in {[i \in DOMAIN ids |->
                        [entity_id |-> ids[i],
                         entity_name |-> EntityName(ids[i]),
                         file_path |-> FilePath(layout, ids[i])]] :
                     ids \in {s \in SeqUpTo(EntityIds, MaxReviews) : Injective(s)},
                     layout \in Layouts}
    /\ dependency_edges \in SeqUpTo(EdgePairs, MaxEdges)
    /\ groups = << >>
    /\ u_pc = "input"

\* untangle(&reviews, &dependency_edges)
Untangle ==
    /\ u_pc = "input"
    /\ IF reviews = << >>
       THEN groups' = << >>
       ELSE LET gm == GroupsMap(reviews, dependency_edges)
            IN  \E ord \in IterationOrders(DOMAIN gm) :
                    groups' = UntangleWith(reviews, dependency_edges, ord, gm)
    /\ u_pc' = "done"
    /\ UNCHANGED <<reviews, dependency_edges, jobVars, classifyVars, riskVars, laterVars>>

NextUntangle == Untangle

SpecUntangle == InitUntangle /\ [][NextUntangle]_vars

(***************************************************************************)
(* The classifier: inspect-core/src/classify.rs                            *)
(* A string is the sequence of its characters; "NL" is the line feed.      *)
(***************************************************************************)
\* str::starts_with
StartsWith(s, p) == Len(s) >= Len(p) /\ SubSeq(s, 1, Len(p)) = p

\* str::contains
Contains(s, p) ==
    \E i \in 1..(Len(s) - Len(p) + 1) : SubSeq(s, i, i + Len(p) - 1) = p

IsWhitespace(c) == c \in {" ", "NL", "TAB"}

RECURSIVE TrimStart(_)
TrimStart(s) ==
    IF s # << >> /\ IsWhitespace(s[1]) THEN TrimStart(Tail(s)) ELSE s

RECURSIVE TrimEnd(_)
TrimEnd(s) ==
    IF s # << >> /\ IsWhitespace(s[Len(s)])
    THEN TrimEnd(SubSeq(s, 1, Len(s) - 1))
    ELSE s

\* str::trim
Trim(s) == TrimEnd(TrimStart(s))

\* the pieces of s between line feeds (the last piece may be empty)
RECURSIVE SplitNL(_, _, _)
SplitNL(s, i, cur) ==
    IF i > Len(s) THEN <<cur>>
    ELSE IF s[i] = "NL" THEN <<cur>> \o SplitNL(s, i + 1, << >>)
    ELSE SplitNL(s, i + 1, Append(cur, s[i]))

\* str::lines: the lines of s; a final line feed ends the last line and
\* starts no empty one, and the empty string has no line
Lines(s) ==
    LET pieces == SplitNL(s, 1, << >>)
    IN  IF pieces[Len(pieces)] = << >>
        THEN SubSeq(pieces, 1, Len(pieces) - 1)
        ELSE pieces

\* is_comment_line
is_comment_line(line) ==
    \/ StartsWith(line, <<"/", "/">>)
    \/ StartsWith(line, <<"/", "*">>)
    \/ StartsWith(line, <<"*">>)
    \/ StartsWith(line, <<"/", "/", "/">>)
    \/ StartsWith(line, <<"/", "*", "*">>)
    \/ StartsWith(line, <<"\"", "\"", "\"">>)
    \/ (StartsWith(line, <<"#">>) /\ ~StartsWith(line, <<"#", "[">>))

SyntaxPrefixes ==
    {<<"f", "n", " ">>,
     <<"p", "u", "b", " ", "f", "n", " ">>,
     <<"p", "u", "b", "(", "c", "r", "a", "t", "e", ")", " ", "f", "n", " ">>,
     <<"d", "e", "f", " ">>,
     <<"c", "l", "a", "s", "s", " ">>,
     <<"s", "t", "r", "u", "c", "t", " ">>,
     <<"e", "n", "u", "m", " ">>,
     <<"t", "r", "a", "i", "t", " ">>,
     <<"i", "m", "p", "l", " ">>,
     <<"i", "n", "t", "e", "r", "f", "a", "c", "e", " ">>,
     <<"t", "y", "p", "e", " ">>,
     <<"p", "u", "b", " ", "s", "t", "r", "u", "c", "t", " ">>,
     <<"p", "u", "b", " ", "e", "n", "u", "m", " ">>,
     <<"p", "u", "b", " ", "t", "r", "a", "i", "t", " ">>,
     <<"a", "s", "y", "n", "c", " ", "f", "n", " ">>,
     <<"p", "u", "b", " ", "a", "s", "y", "n", "c", " ", "f", "n", " ">>,
     <<"f", "u", "n", "c", "t", "i", "o", "n", " ">>,
     <<"e", "x", "p", "o", "r", "t", " ", "f", "u", "n", "c", "t", "i", "o", "n", " ">>,
     <<"e", "x", "p", "o", "r", "t", " ", "d", "e", "f", "a", "u", "l", "t", " ">>}

SyntaxTokens ==
    {<<"-", ">">>,
     <<"=", ">", " ">>,
     <<":", " ", "&">>,
     <<":", " ", "V", "e", "c", "<">>,
     <<":", " ", "O", "p", "t", "i", "o", "n", "<">>,
     <<":", " ", "R", "e", "s", "u", "l", "t", "<">>}

\* is_syntax_line
is_syntax_line(line) ==
    \/ \E p \in SyntaxPrefixes : StartsWith(line, p)
    \/ \E t \in SyntaxTokens : Contains(line, t)

\* categorize_line that asks is_syntax_line before is_comment_line
categorize_line_syntax_first(line, flags) ==
    IF is_syntax_line(line) THEN [flags EXCEPT !.has_syntax = TRUE]
    ELSE IF is_comment_line(line) THEN [flags EXCEPT !.has_text = TRUE]
    ELSE [flags EXCEPT !.has_functional = TRUE]

\* categorize_line: sets one of the three flags
categorize_line(line, flags) ==
    IF is_comment_line(line) THEN [flags EXCEPT !.has_text = TRUE]
    ELSE IF is_syntax_line(line) THEN [flags EXCEPT !.has_syntax = TRUE]
    ELSE [flags EXCEPT !.has_functional = TRUE]

\* a loop "for line in &set { if !other.contains(line) { categorize_line } }"
RECURSIVE CategorizeMissing(_, _, _)
CategorizeMissing(set, other, flags) ==
    IF set = {} THEN flags
    ELSE LET line == CHOOSE l \in set : TRUE
         IN  CategorizeMissing(set \ {line}, other,
                 IF line \notin other THEN categorize_line(line, flags) ELSE flags)

\* the HashSet of the non-empty trimmed lines of a content
TrimmedLineSet(content) ==
    {Trim(l) : l \in Range(Lines(content))} \ {<< >>}

\* Option::as_deref().unwrap_or("")
UnwrapOrEmpty(opt) == IF opt = <<"None">> THEN << >> ELSE opt[2]

\* the final match on (has_text, has_syntax, has_functional)
MatchFlags(f) ==
    CASE  f.has_text /\  f.has_syntax /\  f.has_functional -> "TextSyntaxFunctional"
      []  f.has_text /\  f.has_syntax /\ ~f.has_functional -> "TextSyntax"
      []  f.has_text /\ ~f.has_syntax /\  f.has_functional -> "TextFunctional"
      [] ~f.has_text /\  f.has_syntax /\  f.has_functional -> "SyntaxFunctional"
      []  f.has_text /\ ~f.has_syntax /\ ~f.has_functional -> "Text"
      [] ~f.has_text /\  f.has_syntax /\ ~f.has_functional -> "Syntax"
      [] ~f.has_text /\ ~f.has_syntax /\  f.has_functional -> "Functional"
      [] ~f.has_text /\ ~f.has_syntax /\ ~f.has_functional -> "Text"

\* the line comparison of classify_change, after its two early returns
ClassifyLines(before, after) ==
    LET before_set == TrimmedLineSet(before)
        after_set  == TrimmedLineSet(after)
        f0 == [has_text |-> FALSE, has_syntax |-> FALSE, has_functional |-> FALSE]
        f1 == CategorizeMissing(before_set, after_set, f0)
        f2 == CategorizeMissing(after_set, before_set, f1)
        f3 == IF ~f2.has_text /\ ~f2.has_syntax /\ ~f2.has_functional
              THEN IF Trim(before) # Trim(after)
                   THEN [f2 EXCEPT !.has_functional = TRUE]
                   ELSE [f2 EXCEPT !.has_text = TRUE]
              ELSE f2
    IN  MatchFlags(f3)

\* classify_change with its two early returns in the other order
classify_change_cosmetic_first(ch) ==
    LET before == UnwrapOrEmpty(ch.before_content)
        after  == UnwrapOrEmpty(ch.after_content)
    IN  IF ch.structural_change = <<"Some", FALSE>> THEN "Text"
        ELSE IF before = << >> \/ after = << >> THEN "Functional"
        ELSE ClassifyLines(before, after)

\* classify_change without the early return for structural_change == Some(false)
classify_change_no_cosmetic_rule(ch) ==
    LET before == UnwrapOrEmpty(ch.before_content)
        after  == UnwrapOrEmpty(ch.after_content)
    IN  IF before = << >> \/ after = << >> THEN "Functional"
        ELSE ClassifyLines(before, after)

\* classify_change
classify_change(ch) ==
    LET before == UnwrapOrEmpty(ch.before_content)
        after  == UnwrapOrEmpty(ch.after_content)
    IN  IF before = << >> \/ after = << >> THEN "Functional"
        ELSE IF ch.structural_change = <<"Some", FALSE>> THEN "Text"
        ELSE ClassifyLines(before, after)

ChangeTypes == {"Added", "Modified", "Deleted", "Moved", "Renamed"}

\* Option<bool>
OptionBool == {<<"None">>, <<"Some", FALSE>>, <<"Some", TRUE>>}

\* the lines the contents are made of: a comment (that holds an arrow), a line
\* that starts with a star, a declaration, a statement and the same statement
\* indented
InputLines ==
    {<<"/", "/", "-", ">">>, <<"*", "p">>, <<"f", "n", " ", "f">>, <<"x">>, <<" ", "x">>}

\* the lines joined by line feeds
RECURSIVE JoinLines(_)
JoinLines(ls) ==
    IF ls = << >> THEN << >>
    ELSE IF Len(ls) = 1 THEN ls[1]
    ELSE ls[1] \o <<"NL">> \o JoinLines(Tail(ls))

\* Option<String>: absent, or a content of at most MaxLines lines
Contents ==
    {<<"None">>} \cup {<<"Some", JoinLines(ls)>> : ls \in SeqUpTo(InputLines, MaxLines)}

\* the changes handed to analyze: any contents, any structural_change
InitClassify ==
    /\ IdleJobs
    /\ IdleUntangle
    /\ IdleRisk
    /\ IdleLater
    /\ change \in [change_type : ChangeTypes,
                   before_content : Contents,
                   after_content : Contents,
                   structural_change : OptionBool]
    /\ c_review = << >>
    /\ c_pc = "input"

\* analyze, for one change: classify_change and the fields copied to the review
ClassifyReview ==
    /\ c_pc = "input"
    /\ c_review' = [change_type |-> change.change_type,
                    classification |-> classify_change(change),
                    structural_change |-> change.structural_change]
    /\ c_pc' = "done"
    /\ UNCHANGED <<change, jobVars, untangleVars, riskVars, laterVars>>

NextClassify == ClassifyReview

SpecClassify == InitClassify /\ [][NextClassify]_vars

(***************************************************************************)
(* The risk scorer: inspect-core/src/risk.rs                               *)
(* A score is a whole number of ten-thousandths: One stands for 1.0. Each  *)
(* term of the sum is rounded down to a ten-thousandth.                    *)
(***************************************************************************)
One == 10000

\* the largest r >= lo with r * r <= x, for lo * lo <= x < hi * hi
RECURSIVE ISqrtBetween(_, _, _)
ISqrtBetween(x, lo, hi) ==
    IF hi - lo <= 1 THEN lo
    ELSE LET mid == (lo + hi) \div 2
         IN  IF mid * mid <= x THEN ISqrtBetween(x, mid, hi)
             ELSE ISqrtBetween(x, lo, mid)

\* f64::sqrt of a ratio b / t, in thousandths
SqrtRatioMilli(b, t) == ISqrtBetween((b * 1000000) \div t, 0, 46341)

\* the largest k with 2^k <= m
RECURSIVE FloorLog2(_)
FloorLog2(m) == IF m < 2 THEN 0 ELSE 1 + FloorLog2(m \div 2)

RECURSIVE Pow2(_)
Pow2(k) == IF k = 0 THEN 1 ELSE 2 * Pow2(k - 1)

\* f64::ln of a whole number m >= 1, in ten-thousandths:
\* ln m = k ln 2 + 2 atanh((y - 1) / (y + 1)) for m = 2^k y, 1 <= y < 2
LnScaled(m) ==
    LET k  == FloorLog2(m)
        y  == (m * One) \div Pow2(k)
        z  == ((y - One) * One) \div (y + One)
        z2 == (z * z) \div One
        t3 == (z * z2) \div One
        t5 == (t3 * z2) \div One
        t7 == (t5 * z2) \div One
    IN  (k * 69315) \div 10 + 2 * (z + t3 \div 3 + t5 \div 5 + t7 \div 7)

\* classification_weight with the weights of Syntax and TextSyntax exchanged
classification_weight_exchanged(c) ==
    CASE c = "Text" -> 0
      [] c = "Syntax" -> 1000
      [] c = "Functional" -> 2200
      [] c = "TextSyntax" -> 800
      [] c = "TextFunctional" -> 2200
      [] c = "SyntaxFunctional" -> 2500
      [] c = "TextSyntaxFunctional" -> 2800

\* classification_weight
classification_weight(c) ==
    CASE c = "Text" -> 0
      [] c = "Syntax" -> 800
      [] c = "Functional" -> 2200
      [] c = "TextSyntax" -> 1000
      [] c = "TextFunctional" -> 2200
      [] c = "SyntaxFunctional" -> 2500
      [] c = "TextSyntaxFunctional" -> 2800

\* change_type_weight
change_type_weight(ct) ==
    CASE ct = "Deleted" -> 1200
      [] ct = "Modified" -> 800
      [] ct = "Renamed" -> 400
      [] ct = "Moved" -> 0
      [] ct = "Added" -> 200

\* the sum compute_risk_score builds before the discount and the clamp
RawScore(review, total) ==
    classification_weight(review.classification)
    + change_type_weight(review.change_type)
    + (IF review.is_public_api THEN 1200 ELSE 0)
    + (IF total > 0 /\ review.blast_radius > 0
       THEN (SqrtRatioMilli(review.blast_radius, total) * 3000) \div 1000
       ELSE 0)
    + (IF review.dependent_count > 0
       THEN (LnScaled(1 + review.dependent_count) * 15) \div 100
       ELSE 0)

\* score *= 0.2 when structural_change == Some(false)
Discounted(review, score) ==
    IF review.structural_change = <<"Some", FALSE>> THEN (score * 2) \div 10 ELSE score

Min(a, b) == IF a <= b THEN a ELSE b

\* compute_risk_score without the final min(1.0)
compute_risk_score_no_clamp(review, total) ==
    Discounted(review, RawScore(review, total))

\* compute_risk_score without the cosmetic discount
compute_risk_score_no_discount(review, total) ==
    Min(RawScore(review, total), One)

\* compute_risk_score
compute_risk_score(review, total) ==
    Min(Discounted(review, RawScore(review, total)), One)

\* score_to_level with > for >= at the thresholds
score_to_level_strict(score) ==
    IF score > 7000 THEN "Critical"
    ELSE IF score > 5000 THEN "High"
    ELSE IF score > 3000 THEN "Medium"
    ELSE "Low"

\* score_to_level
score_to_level(score) ==
    IF score >= 7000 THEN "Critical"
    ELSE IF score >= 5000 THEN "High"
    ELSE IF score >= 3000 THEN "Medium"
    ELSE "Low"

Classifications ==
    {"Text", "Syntax", "Functional", "TextSyntax", "TextFunctional",
     "SyntaxFunctional", "TextSyntaxFunctional"}

RiskLevels == {"Low", "Medium", "High", "Critical"}

\* the order of the levels (derive(PartialOrd, Ord) on RiskLevel)
LevelRank(l) ==
    CASE l = "Low" -> 0
      [] l = "Medium" -> 1
      [] l = "High" -> 2
      [] l = "Critical" -> 3

\* the review analyze has built for a change, before it scores it: any
\* classification, change type, flag and counts; risk_score 0.0, risk_level Low
InitRisk ==
    /\ IdleJobs
    /\ IdleUntangle
    /\ IdleClassify
    /\ IdleLater
    /\ r_review \in [classification : Classifications,
                     change_type : ChangeTypes,
                     is_public_api : BOOLEAN,
                     blast_radius : 0..MaxBlast,
                     dependent_count : 0..MaxDependents,
                     structural_change : OptionBool,
                     risk_score : {0},
                     risk_level : {"Low"}]
    /\ total_entities \in 0..MaxTotal
    /\ r_pc = "input"

\* analyze: review.risk_score = compute_risk_score(&review, total);
\*          review.risk_level = score_to_level(review.risk_score)
ScoreReview ==
    /\ r_pc = "input"
    /\ LET score == compute_risk_score(r_review, total_entities)
       IN  r_review' = [r_review EXCEPT !.risk_score = score,
                                        !.risk_level = score_to_level(score)]
    /\ r_pc' = "done"
    /\ UNCHANGED <<total_entities, jobVars, untangleVars, classifyVars, laterVars>>

NextRisk == ScoreReview

SpecRisk == InitRisk /\ [][NextRisk]_vars

(***************************************************************************)
(* analyze: inspect-core/src/analyze.rs, from the changes of the differ    *)
(* and the entity graph (both built by sem_core) to the ReviewResult       *)
(***************************************************************************)
coreVars == <<jobVars, untangleVars, classifyVars, riskVars>>

IdleCore == IdleJobs /\ IdleUntangle /\ IdleClassify /\ IdleRisk

nonAnalyzeVars == <<coreVars, cliVars, noiseVars, remoteVars, outputVars>>

IdleNonAnalyze == IdleCore /\ IdleCli /\ IdleNoise /\ IdleRemote /\ IdleOutputs

\* char::is_uppercase, for the letters the names are made of
IsUppercase(c) ==
    c \in {"A", "B", "C", "D", "E", "F", "G", "H", "I", "J", "K", "L", "M",
           "N", "O", "P", "Q", "R", "S", "T", "U", "V", "W", "X", "Y", "Z"}

\* is_public_api (below) with the name convention applied to every entity type
is_public_api_any_type(entity_type, entity_name, content) ==
    \/ /\ content[1] = "Some"
       /\ LET ls == Lines(content[2])
              first_line == IF ls = << >> THEN << >> ELSE ls[1]
          IN  \/ StartsWith(first_line, <<"p", "u", "b", " ">>)
              \/ StartsWith(first_line, <<"p", "u", "b", "(", "c", "r", "a", "t", "e", ")">>)
              \/ StartsWith(first_line, <<"e", "x", "p", "o", "r", "t", " ">>)
              \/ StartsWith(first_line, <<"m", "o", "d", "u", "l", "e", ".",
                                          "e", "x", "p", "o", "r", "t", "s">>)
    \/ /\ entity_name # << >>
       /\ IsUppercase(entity_name[1])

\* is_public_api
is_public_api(entity_type, entity_name, content) ==
    \/ /\ content[1] = "Some"
       /\ LET ls == Lines(content[2])
              first_line == IF ls = << >> THEN << >> ELSE ls[1]
          IN  \/ StartsWith(first_line, <<"p", "u", "b", " ">>)
              \/ StartsWith(first_line, <<"p", "u", "b", "(", "c", "r", "a", "t", "e", ")">>)
              \/ StartsWith(first_line, <<"e", "x", "p", "o", "r", "t", " ">>)
              \/ StartsWith(first_line, <<"m", "o", "d", "u", "l", "e", ".",
                                          "e", "x", "p", "o", "r", "t", "s">>)
    \/ /\ entity_type \in {"function", "method", "struct", "interface"}
       /\ entity_name # << >>
       /\ IsUppercase(entity_name[1])

\* the ids of the entities analyze is run on
AnalyzeIds == {"a", "b", "c"}

\* SemanticChange.entity_type of the entity with this id
EntityType(id) == IF id = "c" THEN "class" ELSE "function"

\* the dependencies among the entities a, b, c that a graph may hold:
\* <<x, y>> when x depends on y
DependsChoices == {<<"a", "b">>, <<"b", "c">>}

\* the entity graphs: which of the dependencies it holds, and which entity, if
\* any, is a hub that fan_in entities outside the diff depend on
Graphs ==
    {g \in [entities : {GraphEntities},
            depends : SUBSET DependsChoices,
            hub : {"none", "a"},
            fan_in : {ModerateFanIn, LargeFanIn}] :
        g.hub = "none" => g.fan_in = ModerateFanIn}

\* a set as a list, in some fixed order
RECURSIVE SetToSeq(_)
SetToSeq(S) ==
    IF S = {} THEN << >>
    ELSE LET x == CHOOSE y \in S : TRUE IN <<x>> \o SetToSeq(S \ {x})

\* graph.get_dependents(id): the entities among a, b, c that depend on id, and
\* the number of dependents outside the diff
get_dependents(g, id) ==
    [ids |-> SetToSeq({x \in AnalyzeIds : <<x, id>> \in g.depends}),
     others |-> IF id = g.hub THEN g.fan_in ELSE 0]

\* graph.get_dependencies(id)
get_dependencies(g, id) == SetToSeq({y \in AnalyzeIds : <<id, y>> \in g.depends})

\* the entities among a, b, c that depend on one of S, directly or not, and S
RECURSIVE ImpactSet(_, _)
ImpactSet(g, S) ==
    LET T == S \cup {x \in AnalyzeIds : \E y \in S : <<x, y>> \in g.depends}
    IN  IF T = S THEN S ELSE ImpactSet(g, T)

\* the cap analyze gives to impact_count
ImpactCap == 10000

\* graph.impact_count(id, cap): the number of transitive dependents, capped
impact_count(g, id, cap) ==
    LET reached == ImpactSet(g, {id})
    IN  Min(cap, Cardinality(reached \ {id})
                 + (IF g.hub \in reached THEN g.fan_in ELSE 0))

\* what the differ reports of a change: a whitespace edit, a statement
\* replaced by a declaration, an added public entity, a deletion, and a comment added
\* to a renamed entity
ChangeProfiles ==
    {[change_type |-> "Modified", before_content |-> <<"Some", <<"x">>>>,
      after_content |-> <<"Some", <<" ", "x">>>>, structural_change |-> <<"Some", FALSE>>],
     [change_type |-> "Modified", before_content |-> <<"Some", <<"x">>>>,
      after_content |-> <<"Some", <<"f", "n", " ", "f">>>>,
      structural_change |-> <<"Some", TRUE>>],
     [change_type |-> "Added", before_content |-> <<"None">>,
      after_content |-> <<"Some", <<"p", "u", "b", " ", "y">>>>,
      structural_change |-> <<"None">>],
     [change_type |-> "Deleted", before_content |-> <<"Some", <<"x">>>>,
      after_content |-> <<"None">>, structural_change |-> <<"None">>],
     [change_type |-> "Renamed", before_content |-> <<"Some", <<"x">>>>,
      after_content |-> <<"Some", <<"x", "NL", "/", "/", "-", ">">>>>,
      structural_change |-> <<"Some", TRUE>>]}

\* the SemanticChange of the entity id with the profile p
MkChange(id, p) ==
    [entity_id |-> id,
     entity_type |-> EntityType(id),
     entity_name |-> EntityName(id),
     file_path |-> FilePath("nested", id),
     change_type |-> p.change_type,
     before_content |-> p.before_content,
     after_content |-> p.after_content,
     structural_change |-> p.structural_change]

\* The ids the graph is known to hold: the ends of its edges and its hub.
GraphNodes(g) ==
    {e[1] : e \in g.depends} \cup {e[2] : e \in g.depends}
        \cup (IF g.hub = "none" THEN {} ELSE {g.hub})

\* <<start_line, end_line>> of the entity in the file of the working tree
EntityLines(id) ==
    CASE id = "a" -> <<1, 3>>
      [] id = "b" -> <<5, 9>>
      [] OTHER -> <<11, 12>>

\* graph.entities.get(id) mapped to its lines, or (0, 0): the graph is built
\* from the files of the working tree, so it holds the entity of every change
\* but a deletion, and that of a deletion only if it is one of GraphNodes
entity_lines_or_zero(g, ch) ==
    IF ch.change_type # "Deleted" \/ ch.entity_id \in GraphNodes(g)
    THEN EntityLines(ch.entity_id)
    ELSE <<0, 0>>

\* the EntityReview analyze builds for a change, scored
BuildReview(g, ch) ==
    LET review ==
            [entity_id |-> ch.entity_id,
             entity_name |-> ch.entity_name,
             entity_type |-> ch.entity_type,
             file_path |-> ch.file_path,
             change_type |-> ch.change_type,
             classification |-> classify_change(ch),
             risk_score |-> 0,
             risk_level |-> "Low",
             blast_radius |-> impact_count(g, ch.entity_id, ImpactCap),
             dependent_count |-> Len(get_dependents(g, ch.entity_id).ids)
                                 + get_dependents(g, ch.entity_id).others,
             dependency_count |-> Len(get_dependencies(g, ch.entity_id)),
             is_public_api |-> is_public_api(ch.entity_type, ch.entity_name,
                                             ch.after_content),
             structural_change |-> ch.structural_change,
             group_id |-> 0,
             start_line |-> entity_lines_or_zero(g, ch)[1],
             end_line |-> entity_lines_or_zero(g, ch)[2]]
        score == compute_risk_score(review, g.entities)
    IN  [review EXCEPT !.risk_score = score, !.risk_level = score_to_level(score)]

\* the edges analyze pushes for a change: to its dependencies, then to its
\* dependents, those that are changed entities only
ChangeEdges(g, ch, changed_entity_ids) ==
    LET keep(ids) == SelectSeq(ids, LAMBDA x : x \in changed_entity_ids)
        deps      == keep(get_dependencies(g, ch.entity_id))
        dependents == keep(get_dependents(g, ch.entity_id).ids)
    IN  [k \in 1..Len(deps) |-> <<ch.entity_id, deps[k]>>]
        \o [k \in 1..Len(dependents) |-> <<ch.entity_id, dependents[k]>>]

\* the loop over diff.changes: the reviews and the dependency edges
RECURSIVE ScoreChanges(_, _, _, _)
ScoreChanges(g, changes, i, acc) ==
    IF i > Len(changes) THEN acc
    ELSE LET changed_entity_ids == {changes[k].entity_id : k \in DOMAIN changes}
         IN  ScoreChanges(g, changes, i + 1,
                 [reviews |-> Append(acc.reviews, BuildReview(g, changes[i])),
                  edges |-> acc.edges \o ChangeEdges(g, changes[i], changed_entity_ids)])

\* insertion of r into a list sorted by score descending, after every review
\* whose score is not lower (sort_by is stable)
RECURSIVE InsertByScore(_, _)
InsertByScore(sorted, r) ==
    IF sorted = << >> THEN <<r>>
    ELSE IF sorted[1].risk_score >= r.risk_score
         THEN <<sorted[1]>> \o InsertByScore(Tail(sorted), r)
         ELSE <<r>> \o sorted

\* reviews.sort_by(|a, b| b.risk_score.partial_cmp(&a.risk_score).unwrap())
RECURSIVE SortByScore(_)
SortByScore(rs) ==
    IF rs = << >> THEN << >>
    ELSE InsertByScore(SortByScore(SubSeq(rs, 1, Len(rs) - 1)), rs[Len(rs)])

\* WriteGroupIds (below) that leaves every group_id at 0
WriteGroupIdsNot(rs, gs) == rs

\* entity_to_group and the loop that stores group_id in every review
WriteGroupIds(rs, gs) ==
    [i \in DOMAIN rs |->
        IF \E k \in DOMAIN gs : rs[i].entity_id \in Range(gs[k].entity_ids)
        THEN [rs[i] EXCEPT !.group_id =
                 gs[CHOOSE k \in DOMAIN gs : rs[i].entity_id \in Range(gs[k].entity_ids)].id]
        ELSE rs[i]]

\* the number of reviews with the field f in the set S
CountBy(rs, f, S) == Cardinality({i \in DOMAIN rs : rs[i][f] \in S})

\* compute_stats that counts the mixed classifications in no bucket
compute_stats_no_mixed(rs) ==
    [total_entities |-> Len(rs),
     by_risk |-> [critical |-> CountBy(rs, "risk_level", {"Critical"}),
                  high |-> CountBy(rs, "risk_level", {"High"}),
                  medium |-> CountBy(rs, "risk_level", {"Medium"}),
                  low |-> CountBy(rs, "risk_level", {"Low"})],
     by_classification |-> [text |-> CountBy(rs, "classification", {"Text"}),
                            syntax |-> CountBy(rs, "classification", {"Syntax"}),
                            functional |-> CountBy(rs, "classification", {"Functional"}),
                            mixed |-> 0],
     by_change_type |-> [added |-> CountBy(rs, "change_type", {"Added"}),
                         modified |-> CountBy(rs, "change_type", {"Modified"}),
                         deleted |-> CountBy(rs, "change_type", {"Deleted"}),
                         moved |-> CountBy(rs, "change_type", {"Moved"}),
                         renamed |-> CountBy(rs, "change_type", {"Renamed"})]]

\* compute_stats
compute_stats(rs) ==
    [total_entities |-> Len(rs),
     by_risk |-> [critical |-> CountBy(rs, "risk_level", {"Critical"}),
                  high |-> CountBy(rs, "risk_level", {"High"}),
                  medium |-> CountBy(rs, "risk_level", {"Medium"}),
                  low |-> CountBy(rs, "risk_level", {"Low"})],
     by_classification |-> [text |-> CountBy(rs, "classification", {"Text"}),
                            syntax |-> CountBy(rs, "classification", {"Syntax"}),
                            functional |-> CountBy(rs, "classification", {"Functional"}),
                            mixed |-> CountBy(rs, "classification",
                                         Classifications \ {"Text", "Syntax", "Functional"})],
     by_change_type |-> [added |-> CountBy(rs, "change_type", {"Added"}),
                         modified |-> CountBy(rs, "change_type", {"Modified"}),
                         deleted |-> CountBy(rs, "change_type", {"Deleted"}),
                         moved |-> CountBy(rs, "change_type", {"Moved"}),
                         renamed |-> CountBy(rs, "change_type", {"Renamed"})]]

\* empty_result
empty_result ==
    [entity_reviews |-> << >>,
     groups |-> << >>,
     stats |-> [total_entities |-> 0,
                by_risk |-> [critical |-> 0, high |-> 0, medium |-> 0, low |-> 0],
                by_classification |-> [text |-> 0, syntax |-> 0, functional |-> 0, mixed |-> 0],
                by_change_type |-> [added |-> 0, modified |-> 0, deleted |-> 0,
                                    moved |-> 0, renamed |-> 0]]]

\* the ReviewResult of the sorted reviews and their groups
MkResult(sorted, gs) ==
    LET rs == WriteGroupIds(sorted, gs)
    IN  [entity_reviews |-> rs, groups |-> gs, stats |-> compute_stats(rs)]

\* the results analyze may return: one for every order in which untangle may
\* iterate over its groups_map
AnalyzeResults(g, changes) ==
    IF changes = << >> THEN {empty_result}
    ELSE LET scored == ScoreChanges(g, changes, 1, [reviews |-> << >>, edges |-> << >>])
             sorted == SortByScore(scored.reviews)
             gm     == GroupsMap(sorted, scored.edges)
         IN  {MkResult(sorted, UntangleWith(sorted, scored.edges, ord, gm)) :
                 ord \in IterationOrders(DOMAIN gm)}

\* the diffs: at most MaxChanges changes, of distinct entities
Diffs ==
    UNION {{[i \in DOMAIN ids |-> MkChange(ids[i], ps[i])] :
              ps \in [DOMAIN ids -> ChangeProfiles]} :
           ids \in {q \in SeqUpTo(AnalyzeIds, MaxChanges) : Injective(q)}}

\* the diff and the graph of a working tree
InitAnalyze ==
    /\ IdleNonAnalyze
    /\ a_changes \in Diffs
    /\ a_graph \in Graphs
    /\ a_results = << >>
    /\ a_pc = "input"

\* analyze, run on the same working tree a first and a second time
Analyze ==
    /\ a_pc \in {"input", "once"}
    /\ \E result \in AnalyzeResults(a_graph, a_changes) :
           a_results' = Append(a_results, result)
    /\ a_pc' = IF a_pc = "input" THEN "once" ELSE "twice"
    /\ UNCHANGED <<a_changes, a_graph, nonAnalyzeVars>>

NextAnalyze == Analyze

SpecAnalyze == InitAnalyze /\ [][NextAnalyze]_vars

(***************************************************************************)
(* The CLI commands that print an analysis as markdown:                    *)
(* inspect-cli/src/commands/file.rs, diff.rs, formatters/markdown.rs, and  *)
(* suggest_verdict of inspect-core/src/risk.rs                             *)
(***************************************************************************)
nonCliVars == <<coreVars, a_results, a_pc, noiseVars, remoteVars, outputVars>>

\* str::ends_with
EndsWith(s, p) == Len(s) >= Len(p) /\ SubSeq(s, Len(s) - Len(p) + 1, Len(s)) = p

\* suggest_verdict that looks for Critical and High reviews in entity_reviews
suggest_verdict_by_reviews(result) ==
    IF \E i \in DOMAIN result.entity_reviews :
           result.entity_reviews[i].risk_level = "Critical"
    THEN "RequiresCarefulReview"
    ELSE IF \E i \in DOMAIN result.entity_reviews :
                result.entity_reviews[i].risk_level = "High"
    THEN "RequiresReview"
    ELSE IF /\ result.entity_reviews # << >>
            /\ \A i \in DOMAIN result.entity_reviews :
                  result.entity_reviews[i].structural_change = <<"Some", FALSE>>
    THEN "LikelyApprovable"
    ELSE "StandardReview"

\* suggest_verdict
suggest_verdict(result) ==
    IF result.stats.by_risk.critical > 0 THEN "RequiresCarefulReview"
    ELSE IF result.stats.by_risk.high > 0 THEN "RequiresReview"
    ELSE IF /\ result.entity_reviews # << >>
            /\ \A i \in DOMAIN result.entity_reviews :
                  result.entity_reviews[i].structural_change = <<"Some", FALSE>>
    THEN "LikelyApprovable"
    ELSE "StandardReview"

\* the values of --min-risk: absent, a level in capitals, and no level
MinRiskArgs == {<<"None">>, <<"Some", "HIGH">>, <<"Some", "bogus">>}

\* str::to_lowercase, for the values of --min-risk
to_lowercase(str) == IF str = "HIGH" THEN "high" ELSE str

\* parse_risk_level, and the same match in file.rs
parse_risk_level(str) ==
    LET low == to_lowercase(str)
    IN  CASE low = "critical" -> "Critical"
          [] low = "high" -> "High"
          [] low = "medium" -> "Medium"
          [] OTHER -> "Low"

\* FilterMinRisk (below) that keeps the reviews above the minimum only
FilterMinRiskStrict(result, min_risk) ==
    IF min_risk[1] = "Some"
    THEN [result EXCEPT !.entity_reviews =
             SelectSeq(@, LAMBDA r :
                 LevelRank(r.risk_level) > LevelRank(parse_risk_level(min_risk[2])))]
    ELSE result

\* result.entity_reviews.retain(|r| r.risk_level >= min_level), when
\* --min-risk is given
FilterMinRisk(result, min_risk) ==
    IF min_risk[1] = "Some"
    THEN [result EXCEPT !.entity_reviews =
             SelectSeq(@, LAMBDA r :
                 LevelRank(r.risk_level) >= LevelRank(parse_risk_level(min_risk[2])))]
    ELSE result

\* result.entity_reviews.retain(|r| r.file_path.ends_with(&args.path))
FilterFile(result, path) ==
    [result EXCEPT !.entity_reviews = SelectSeq(@, LAMBDA r : EndsWith(r.file_path, path))]

\* formatters::markdown::print: the result it was handed and the verdict it
\* printed, none when there is no review to print
markdown_print(result) ==
    [result |-> result,
     verdict |-> IF result.entity_reviews = << >> THEN <<"None">>
                 ELSE <<"Some", suggest_verdict(result)>>]

\* the commands, run with --format markdown: file with a path, diff, and pr
\* on the local repository
CliArgs ==
    [command : {"file"}, path : {<<"m">>, <<"n">>}, min_risk : MinRiskArgs]
    \cup [command : {"diff", "pr"}, path : {<< >>}, min_risk : MinRiskArgs]

\* the graphs the commands are run on: without edges or with both, without
\* a hub or with a hub of many dependents
CliGraphs ==
    {g \in Graphs : /\ g.depends \in {{}, DependsChoices}
                    /\ g.hub = "a" => g.fan_in = LargeFanIn}

InitCli ==
    /\ IdleCore
    /\ IdleNoise
    /\ IdleRemote
    /\ IdleOutputs
    /\ a_changes \in Diffs
    /\ a_graph \in CliGraphs
    /\ a_results = << >>
    /\ a_pc = "idle"
    /\ cli_args \in CliArgs
    /\ cli_out = << >>
    /\ cli_pc = "input"

\* commands::file::run
RunFile ==
    /\ cli_pc = "input"
    /\ cli_args.command = "file"
    /\ \E result \in AnalyzeResults(a_graph, a_changes) :
           cli_out' = markdown_print(
               FilterMinRisk(FilterFile(result, cli_args.path), cli_args.min_risk))
    /\ cli_pc' = "done"
    /\ UNCHANGED <<cli_args, a_changes, a_graph, nonCliVars>>

\* commands::diff::run
RunDiff ==
    /\ cli_pc = "input"
    /\ cli_args.command = "diff"
    /\ \E result \in AnalyzeResults(a_graph, a_changes) :
           cli_out' = markdown_print(FilterMinRisk(result, cli_args.min_risk))
    /\ cli_pc' = "done"
    /\ UNCHANGED <<cli_args, a_changes, a_graph, nonCliVars>>

\* commands::pr::run_local, with apply_filters_and_print
RunPr ==
    /\ cli_pc = "input"
    /\ cli_args.command = "pr"
    /\ \E result \in AnalyzeResults(a_graph, a_changes) :
           cli_out' = markdown_print(FilterMinRisk(result, cli_args.min_risk))
    /\ cli_pc' = "done"
    /\ UNCHANGED <<cli_args, a_changes, a_graph, nonCliVars>>

NextCli == RunFile \/ RunDiff \/ RunPr

SpecCli == InitCli /\ [][NextCli]_vars

(***************************************************************************)
(* The noise filter: inspect-core/src/noise.rs                             *)
(***************************************************************************)
nonNoiseVars == <<coreVars, analyzeVars, cliVars, remoteVars, outputVars>>

IdleNonNoise == IdleCore /\ IdleAnalyze /\ IdleCli /\ IdleRemote /\ IdleOutputs

NOISE_EXACT ==
    {<<"p", "n", "p", "m", "-", "l", "o", "c", "k", ".", "y", "a", "m", "l">>,
     <<"p", "a", "c", "k", "a", "g", "e", "-", "l", "o", "c", "k", ".", "j", "s", "o", "n">>,
     <<"y", "a", "r", "n", ".", "l", "o", "c", "k">>,
     <<"n", "p", "m", "-", "s", "h", "r", "i", "n", "k", "w", "r", "a", "p", ".", "j", "s", "o", "n">>,
     <<"b", "u", "n", ".", "l", "o", "c", "k", "b">>,
     <<"C", "a", "r", "g", "o", ".", "l", "o", "c", "k">>,
     <<"G", "e", "m", "f", "i", "l", "e", ".", "l", "o", "c", "k">>,
     <<"p", "o", "e", "t", "r", "y", ".", "l", "o", "c", "k">>,
     <<"P", "i", "p", "f", "i", "l", "e", ".", "l", "o", "c", "k">>,
     <<"u", "v", ".", "l", "o", "c", "k">>, <<"g", "o", ".", "s", "u", "m">>,
     <<"c", "o", "m", "p", "o", "s", "e", "r", ".", "l", "o", "c", "k">>,
     <<"p", "a", "c", "k", "a", "g", "e", "s", ".", "l", "o", "c", "k", ".", "j", "s", "o", "n">>,
     <<"p", "u", "b", "s", "p", "e", "c", ".", "l", "o", "c", "k">>,
     <<"P", "a", "c", "k", "a", "g", "e", ".", "r", "e", "s", "o", "l", "v", "e", "d">>,
     <<"m", "i", "x", ".", "l", "o", "c", "k">>, <<".", "D", "S", "_", "S", "t", "o", "r", "e">>}

NOISE_EXTENSIONS ==
    {<<".", "m", "i", "n", ".", "j", "s">>, <<".", "m", "i", "n", ".", "c", "s", "s">>,
     <<".", "m", "a", "p">>, <<".", "c", "h", "u", "n", "k", ".", "j", "s">>,
     <<".", "b", "u", "n", "d", "l", "e", ".", "j", "s">>}

NOISE_PREFIXES ==
    {<<"d", "i", "s", "t", "/">>, <<".", "n", "e", "x", "t", "/">>,
     <<"b", "u", "i", "l", "d", "/">>,
     <<"_", "_", "g", "e", "n", "e", "r", "a", "t", "e", "d", "_", "_", "/">>,
     <<".", "t", "u", "r", "b", "o", "/">>}

\* path.rsplit('/').next().unwrap_or(path): what stands after the last slash
FileNameOf(path) == SubSeq(path, RFindSlash(path) + 1, Len(path))

\* is_noise_file that compares the whole path with the exact names
is_noise_file_exact_path(path) ==
    \/ \E n \in NOISE_EXACT : path = n
    \/ \E ext \in NOISE_EXTENSIONS : EndsWith(path, ext)
    \/ \E prefix \in NOISE_PREFIXES : StartsWith(path, prefix)

\* is_noise_file
is_noise_file(path) ==
    LET filename == FileNameOf(path)
    IN  \/ \E n \in NOISE_EXACT : filename = n
        \/ \E ext \in NOISE_EXTENSIONS : EndsWith(path, ext)
        \/ \E prefix \in NOISE_PREFIXES : StartsWith(path, prefix)

\* the directory names and the file names the paths are made of
DirNames ==
    {<<"d", "i", "s", "t">>, <<"s", "r", "c">>, <<"s", "o", "m", "e">>, <<"p", "a", "t", "h">>,
     <<".", "n", "e", "x", "t">>, <<"x", "d", "i", "s", "t">>}

FileNames ==
    NOISE_EXACT \cup
    {<<"m", "a", "i", "n", ".", "r", "s">>, <<"a", "p", "p", ".", "j", "s">>,
     <<"a", "p", "p", ".", "m", "i", "n", ".", "j", "s">>,
     <<"a", ".", "m", "i", "n", ".", "c", "s", "s">>, <<"x", ".", "m", "a", "p">>,
     <<"m", "a", "p">>, <<"a", ".", "c", "h", "u", "n", "k", ".", "j", "s">>,
     <<"a", ".", "b", "u", "n", "d", "l", "e", ".", "j", "s">>,
     <<"b", "u", "n", "d", "l", "e", ".", "j", "s">>,
     <<"C", "a", "r", "g", "o", ".", "l", "o", "c", "k", ".", "b", "a", "k">>,
     <<"x", "y", "a", "r", "n", ".", "l", "o", "c", "k">>, <<"b", "u", "i", "l", "d">>,
     <<"t", "y", "p", "e", "s", ".", "t", "s">>}

\* the directories joined, each followed by a slash
RECURSIVE JoinDirs(_)
JoinDirs(ds) == IF ds = << >> THEN << >> ELSE ds[1] \o <<"/">> \o JoinDirs(Tail(ds))

\* the paths: at most MaxDepth directories, then a file name or nothing
Paths ==
    {JoinDirs(ds) \o f : ds \in SeqUpTo(DirNames, MaxDepth), f \in FileNames \cup {<< >>}}

InitNoise ==
    /\ IdleNonNoise
    /\ n_path \in Paths
    /\ n_result = FALSE
    /\ n_pc = "input"

\* is_noise_file(path)
CheckNoise ==
    /\ n_pc = "input"
    /\ n_result' = is_noise_file(n_path)
    /\ n_pc' = "done"
    /\ UNCHANGED <<n_path, nonNoiseVars>>

NextNoise == CheckNoise

SpecNoise == InitNoise /\ [][NextNoise]_vars

(***************************************************************************)
(* Remote analysis of a pull request: create_triage and run_review of      *)
(* inspect-api/src/routes.rs, run_remote of inspect-cli/src/commands/pr.rs, *)
(* get_file_pairs of inspect-core/src/github.rs                            *)
(***************************************************************************)
nonRemoteVars == <<coreVars, analyzeVars, cliVars, noiseVars, outputVars>>

IdleNonRemote == IdleCore /\ IdleAnalyze /\ IdleCli /\ IdleNoise /\ IdleOutputs

\* the handlers that analyze a pull request from GitHub
RemoteEntries == {"create_triage", "run_review", "run_remote"}

\* PrFile: a lockfile, a source file and a build output, in any status
PrFiles ==
    [filename : {<<"C", "a", "r", "g", "o", ".", "l", "o", "c", "k">>,
                 <<"s", "r", "c", "/", "m", "a", "i", "n", ".", "r", "s">>,
                 <<"d", "i", "s", "t", "/", "a", "p", "p", ".", "j", "s">>},
     status : {"added", "modified", "removed"}]

InitRemote ==
    /\ IdleNonRemote
    /\ rm_entry \in RemoteEntries
    /\ rm_files \in SeqUpTo(PrFiles, MaxFiles)
    /\ rm_visible = << >>
    /\ rm_fetches = {}
    /\ rm_pairs = << >>
    /\ rm_analyzed = <<"None">>
    /\ rm_pc = "start"

\* GitHubClient::new() and client.get_pr succeed
RemoteGetPrOk ==
    /\ rm_pc = "start"
    /\ rm_pc' = "pr"
    /\ UNCHANGED <<rm_entry, rm_files, rm_visible, rm_fetches, rm_pairs, rm_analyzed,
                   nonRemoteVars>>

\* GitHubClient::new() or client.get_pr fails: the handler returns
RemoteGetPrFailed ==
    /\ rm_pc = "start"
    /\ rm_pc' = "failed"
    /\ UNCHANGED <<rm_entry, rm_files, rm_visible, rm_fetches, rm_pairs, rm_analyzed,
                   nonRemoteVars>>

\* visible_files that keeps every file of the pull request
FilterVisibleNot(files) == files

\* visible_files: pr.files.iter().filter(|f| !is_noise_file(&f.filename))
FilterVisible(files) == SelectSeq(files, LAMBDA f : ~is_noise_file(f.filename))

\* the handler computes visible_files
RemoteFilter ==
    /\ rm_pc = "pr"
    /\ rm_visible' = FilterVisible(rm_files)
    /\ rm_pc' = "filtered"
    /\ UNCHANGED <<rm_entry, rm_files, rm_fetches, rm_pairs, rm_analyzed, nonRemoteVars>>

\* the contents get_file_pairs requests for a file: none at the base for an
\* added file, none at the head for a removed one
ContentRequests(f) ==
    (IF f.status = "added" THEN {} ELSE {<<f.filename, "base">>})
    \cup (IF f.status = "removed" THEN {} ELSE {<<f.filename, "head">>})

\* the FilePair of a file, given the requests that succeeded
FilePairOf(f, succeeded) ==
    [filename |-> f.filename,
     status |-> f.status,
     before_content |-> IF <<f.filename, "base">> \in ContentRequests(f) \cap succeeded
                        THEN <<"Some", <<f.filename, "base">>>> ELSE <<"None">>,
     after_content |-> IF <<f.filename, "head">> \in ContentRequests(f) \cap succeeded
                       THEN <<"Some", <<f.filename, "head">>>> ELSE <<"None">>]

\* client.get_file_pairs(repo, &visible_files, base_ref, head_ref): every
\* request succeeds or fails (a failure leaves the content absent)
RemoteGetFilePairs ==
    /\ rm_pc = "filtered"
    /\ LET requests == UNION {ContentRequests(rm_visible[i]) : i \in DOMAIN rm_visible}
       IN  /\ rm_fetches' = rm_fetches \cup requests
           /\ \E succeeded \in SUBSET requests :
                  rm_pairs' = [i \in DOMAIN rm_visible |-> FilePairOf(rm_visible[i], succeeded)]
    /\ rm_pc' = "paired"
    /\ UNCHANGED <<rm_entry, rm_files, rm_visible, rm_analyzed, nonRemoteVars>>

\* analyze_remote(&file_pairs)
RemoteAnalyze ==
    /\ rm_pc = "paired"
    /\ rm_analyzed' = <<"Some", rm_pairs>>
    /\ rm_pc' = "analyzed"
    /\ UNCHANGED <<rm_entry, rm_files, rm_visible, rm_fetches, rm_pairs, nonRemoteVars>>

NextRemote ==
    \/ RemoteGetPrOk
    \/ RemoteGetPrFailed
    \/ RemoteFilter
    \/ RemoteGetFilePairs
    \/ RemoteAnalyze

SpecRemote == InitRemote /\ [][NextRemote]_vars

(***************************************************************************)
(* The JSON formatter: inspect-cli/src/formatters/json.rs over the enums   *)
(* of inspect-core/src/types.rs. An enum value of the model is the name of *)
(* its variant.                                                            *)
(***************************************************************************)
secondVars == <<coreVars, analyzeVars, cliVars, noiseVars, remoteVars>>

IdleSecond == IdleCore /\ IdleAnalyze /\ IdleCli /\ IdleNoise /\ IdleRemote

\* impl Display for ChangeClassification
fmt_classification(c) ==
    CASE c = "Text" -> "text"
      [] c = "Syntax" -> "syntax"
      [] c = "Functional" -> "functional"
      [] c = "TextSyntax" -> "text+syntax"
      [] c = "TextFunctional" -> "text+functional"
      [] c = "SyntaxFunctional" -> "syntax+functional"
      [] c = "TextSyntaxFunctional" -> "text+syntax+functional"

\* impl Display for RiskLevel
fmt_risk_level(l) ==
    CASE l = "Low" -> "low"
      [] l = "Medium" -> "medium"
      [] l = "High" -> "high"
      [] l = "Critical" -> "critical"

\* derive(Serialize) on ChangeClassification, which carries no serde
\* attribute: a unit variant is written as the string of its name
serialize_classification(c) ==
    CASE c = "Text" -> "Text"
      [] c = "Syntax" -> "Syntax"
      [] c = "Functional" -> "Functional"
      [] c = "TextSyntax" -> "TextSyntax"
      [] c = "TextFunctional" -> "TextFunctional"
      [] c = "SyntaxFunctional" -> "SyntaxFunctional"
      [] c = "TextSyntaxFunctional" -> "TextSyntaxFunctional"

\* derive(Serialize) on RiskLevel, which carries no serde attribute either
serialize_risk_level(l) ==
    CASE l = "Low" -> "Low"
      [] l = "Medium" -> "Medium"
      [] l = "High" -> "High"
      [] l = "Critical" -> "Critical"

\* Option<bool> in JSON: null, false or true
serialize_option_bool(o) ==
    IF o[1] = "None" THEN "null" ELSE IF o[2] THEN "true" ELSE "false"

\* formatters::json::print: serde_json::to_string_pretty of the result, here
\* the fields of one EntityReview that hold an enum, an option or a boolean
json_print(r) ==
    [classification |-> serialize_classification(r.classification),
     risk_level |-> serialize_risk_level(r.risk_level),
     is_public_api |-> IF r.is_public_api THEN "true" ELSE "false",
     structural_change |-> serialize_option_bool(r.structural_change)]

InitJson ==
    /\ IdleSecond
    /\ IdlePatch
    /\ IdleMcp
    /\ j_review \in [classification : Classifications, risk_level : RiskLevels,
                     is_public_api : BOOLEAN, structural_change : OptionBool]
    /\ j_out = << >>
    /\ j_pc = "input"

PrintJson ==
    /\ j_pc = "input"
    /\ j_out' = json_print(j_review)
    /\ j_pc' = "done"
    /\ UNCHANGED <<j_review, secondVars, patchVars, mcpVars>>

NextJson == PrintJson

SpecJson == InitJson /\ [][NextJson]_vars

(***************************************************************************)
(* The patch parser: inspect-core/src/patch.rs. A patch is the sequence of *)
(* its lines (str::lines), a line the sequence of its characters.          *)
(***************************************************************************)
\* str::split_whitespace
RECURSIVE SplitWhitespace(_, _, _)
SplitWhitespace(s, i, cur) ==
    LET token == IF cur = << >> THEN << >> ELSE <<cur>>
    IN  IF i > Len(s) THEN token
        ELSE IF IsWhitespace(s[i]) THEN token \o SplitWhitespace(s, i + 1, << >>)
        ELSE SplitWhitespace(s, i + 1, Append(cur, s[i]))

DigitChars == {"0", "1", "2", "3", "4", "5", "6", "7", "8", "9"}

DigitValue(c) == CHOOSE v \in 0..9 : ToString(v) = c

RECURSIVE DecimalValue(_, _)
DecimalValue(s, acc) ==
    IF s = << >> THEN acc ELSE DecimalValue(Tail(s), 10 * acc + DigitValue(s[1]))

\* str::parse::<u64>().unwrap_or(0): an optional plus sign, then digits only
parse_or_zero(s) ==
    LET body == IF s # << >> /\ s[1] = "+" THEN Tail(s) ELSE s
    IN  IF body # << >> /\ \A i \in DOMAIN body : body[i] \in DigitChars
        THEN DecimalValue(body, 0)
        ELSE 0

\* parse_range: start,count, or start alone with the count 1
parse_range(s) ==
    LET commas == {i \in DOMAIN s : s[i] = ","}
    IN  IF commas # {}
        THEN LET c == CHOOSE i \in commas : \A j \in commas : i <= j
             IN  <<parse_or_zero(SubSeq(s, 1, c - 1)), parse_or_zero(SubSeq(s, c + 1, Len(s)))>>
        ELSE <<parse_or_zero(s), 1>>

\* parse_hunk_header: <<old_start, old_count, new_start, new_count>>
parse_hunk_header(header) ==
    LET parts == SplitWhitespace(header, 1, << >>)
        old == IF Len(parts) >= 2 THEN parts[2] ELSE <<"-", "0", ",", "0">>
        new == IF Len(parts) >= 3 THEN parts[3] ELSE <<"+", "0", ",", "0">>
    IN  parse_range(Tail(old)) \o parse_range(Tail(new))

\* parse_line (below) where a context line advances old_line only
parse_line_context_keeps_new_line(st, raw_line) ==
    IF StartsWith(raw_line, <<"@", "@">>)
    THEN LET h == parse_hunk_header(raw_line)
         IN  [hunks |-> IF st.current_hunk[1] = "Some"
                        THEN Append(st.hunks, st.current_hunk[2]) ELSE st.hunks,
              current_hunk |-> <<"Some", [old_start |-> h[1], old_count |-> h[2],
                                          new_start |-> h[3], new_count |-> h[4],
                                          header |-> raw_line, lines |-> << >>]>>,
              old_line |-> h[1],
              new_line |-> h[3]]
    ELSE IF st.current_hunk[1] = "None" THEN st
    ELSE LET hunk == st.current_hunk[2]
             push(l) == <<"Some", [hunk EXCEPT !.lines = Append(@, l)]>>
         IN  IF StartsWith(raw_line, <<"+">>)
             THEN [st EXCEPT !.current_hunk =
                                 push([old_line |-> <<"None">>, new_line |-> <<"Some", st.new_line>>,
                                       kind |-> "add", content |-> Tail(raw_line),
                                       commentable |-> TRUE]),
                             !.new_line = @ + 1]
             ELSE IF StartsWith(raw_line, <<"-">>)
             THEN [st EXCEPT !.current_hunk =
                                 push([old_line |-> <<"Some", st.old_line>>, new_line |-> <<"None">>,
                                       kind |-> "delete", content |-> Tail(raw_line),
                                       commentable |-> FALSE]),
                             !.old_line = @ + 1]
             ELSE [st EXCEPT !.current_hunk =
                                 push([old_line |-> <<"Some", st.old_line>>,
                                       new_line |-> <<"Some", st.new_line>>,
                                       kind |-> "context",
                                       content |-> IF StartsWith(raw_line, <<" ">>)
                                                   THEN Tail(raw_line) ELSE raw_line,
                                       commentable |-> TRUE]),
                             !.old_line = @ + 1]

\* the body of the loop of parse_patch on one line, with the locals
\* hunks, current_hunk, old_line and new_line in st
parse_line(st, raw_line) ==
    IF StartsWith(raw_line, <<"@", "@">>)
    THEN LET h == parse_hunk_header(raw_line)
         IN  [hunks |-> IF st.current_hunk[1] = "Some"
                        THEN Append(st.hunks, st.current_hunk[2]) ELSE st.hunks,
              current_hunk |-> <<"Some", [old_start |-> h[1], old_count |-> h[2],
                                          new_start |-> h[3], new_count |-> h[4],
                                          header |-> raw_line, lines |-> << >>]>>,
              old_line |-> h[1],
              new_line |-> h[3]]
    ELSE IF st.current_hunk[1] = "None" THEN st
    ELSE LET hunk == st.current_hunk[2]
             push(l) == <<"Some", [hunk EXCEPT !.lines = Append(@, l)]>>
         IN  IF StartsWith(raw_line, <<"+">>)
             THEN [st EXCEPT !.current_hunk =
                                 push([old_line |-> <<"None">>, new_line |-> <<"Some", st.new_line>>,
                                       kind |-> "add", content |-> Tail(raw_line),
                                       commentable |-> TRUE]),
                             !.new_line = @ + 1]
             ELSE IF StartsWith(raw_line, <<"-">>)
             THEN [st EXCEPT !.current_hunk =
                                 push([old_line |-> <<"Some", st.old_line>>, new_line |-> <<"None">>,
                                       kind |-> "delete", content |-> Tail(raw_line),
                                       commentable |-> FALSE]),
                             !.old_line = @ + 1]
             ELSE [st EXCEPT !.current_hunk =
                                 push([old_line |-> <<"Some", st.old_line>>,
                                       new_line |-> <<"Some", st.new_line>>,
                                       kind |-> "context",
                                       content |-> IF StartsWith(raw_line, <<" ">>)
                                                   THEN Tail(raw_line) ELSE raw_line,
                                       commentable |-> TRUE]),
                             !.old_line = @ + 1,
                             !.new_line = @ + 1]

RECURSIVE ParseLines(_, _, _)
ParseLines(st, lines, i) ==
    IF i > Len(lines) THEN st ELSE ParseLines(parse_line(st, lines[i]), lines, i + 1)

parse_patch(patch) ==
    LET st == ParseLines([hunks |-> << >>, current_hunk |-> <<"None">>,
                          old_line |-> 0, new_line |-> 0], patch, 1)
    IN  IF st.current_hunk[1] = "Some" THEN Append(st.hunks, st.current_hunk[2]) ELSE st.hunks

\* the new_line of the commentable lines of one hunk
RECURSIVE CommentableOf(_)
CommentableOf(ls) ==
    IF ls = << >> THEN << >>
    ELSE (IF ls[1].commentable /\ ls[1].new_line[1] = "Some"
          THEN <<ls[1].new_line[2]>> ELSE << >>) \o CommentableOf(Tail(ls))

RECURSIVE commentable_lines(_)
commentable_lines(hunks) ==
    IF hunks = << >> THEN << >>
    ELSE CommentableOf(hunks[1].lines) \o commentable_lines(Tail(hunks))

\* the lines the patches are made of: three headers (one of the tests, one
\* without counts, one bare), an added, a deleted and a context line, a line
\* without a prefix and an empty line
PatchLines ==
    {<<"@", "@", " ", "-", "1", "0", ",", "3", " ", "+", "1", "0", ",", "4", " ", "@", "@">>, <<"@", "@", " ", "-", "5", " ", "+", "7", " ", "@", "@">>,
     <<"@", "@">>, <<"+", "a">>, <<"-", "a">>, <<" ", "a">>, <<"a">>, << >>}

InitPatch ==
    /\ IdleSecond
    /\ IdleJson
    /\ IdleMcp
    /\ p_patch \in SeqUpTo(PatchLines, MaxPatchLines)
    /\ p_hunks = << >>
    /\ p_commentable = << >>
    /\ p_pc = "input"

\* parse_patch, then commentable_lines on what it returned
ParsePatch ==
    /\ p_pc = "input"
    /\ p_hunks' = parse_patch(p_patch)
    /\ p_commentable' = commentable_lines(parse_patch(p_patch))
    /\ p_pc' = "done"
    /\ UNCHANGED <<p_patch, secondVars, jsonVars, mcpVars>>

NextPatch == ParsePatch

SpecPatch == InitPatch /\ [][NextPatch]_vars

(***************************************************************************)
(* The result cache of the MCP server: inspect-mcp/src/server.rs. A result *)
(* carries, as history, the key it was computed for and the number of the  *)
(* analysis that computed it.                                              *)
(***************************************************************************)
\* the tool calls in flight at once or one after the other
CallIds == 1..MaxCalls

\* (repo_path, target)
CacheKeys == {<<"repo", "HEAD~1">>, <<"repo", "working">>}

\* a tool call before it arrived
NoCall == [key |-> << >>, pc |-> "none", result |-> <<"None">>, answer |-> <<"None">>]

\* InspectServer::new: the cache is None
InitMcp ==
    /\ IdleSecond
    /\ IdleJson
    /\ IdlePatch
    /\ m_cache = <<"None">>
    /\ m_calls = [c \in CallIds |-> NoCall]
    /\ m_runs = 0

\* a tool handler calls get_result(repo_path, target)
McpCall(c) ==
    /\ m_calls[c].pc = "none"
    /\ \E key \in CacheKeys : m_calls' = [m_calls EXCEPT ![c].key = key, ![c].pc = "check"]
    /\ UNCHANGED <<m_cache, m_runs, secondVars, jsonVars, patchVars>>

\* CheckCache (below) that answers with whatever the cache holds
CheckCacheAnyKey(c) ==
    /\ m_calls[c].pc = "check"
    /\ m_calls' = IF m_cache[1] = "Some"
                  THEN [m_calls EXCEPT ![c].answer = <<"Ok", m_cache[2].result>>,
                                       ![c].pc = "done"]
                  ELSE [m_calls EXCEPT ![c].pc = "analyze"]
    /\ UNCHANGED <<m_cache, m_runs, secondVars, jsonVars, patchVars>>

\* get_result: under the lock, return the cached result when the key matches
CheckCache(c) ==
    /\ m_calls[c].pc = "check"
    /\ m_calls' = IF m_cache[1] = "Some" /\ m_cache[2].key = m_calls[c].key
                  THEN [m_calls EXCEPT ![c].answer = <<"Ok", m_cache[2].result>>,
                                       ![c].pc = "done"]
                  ELSE [m_calls EXCEPT ![c].pc = "analyze"]
    /\ UNCHANGED <<m_cache, m_runs, secondVars, jsonVars, patchVars>>

\* get_result: analyze in a blocking task returned a result
McpAnalyzeOk(c) ==
    /\ m_calls[c].pc = "analyze"
    /\ m_runs' = m_runs + 1
    /\ m_calls' = [m_calls EXCEPT
                       ![c].result = <<"Some", [key |-> m_calls[c].key, run |-> m_runs + 1]>>,
                       ![c].pc = "store"]
    /\ UNCHANGED <<m_cache, secondVars, jsonVars, patchVars>>

\* get_result: analyze or the blocking task failed; ?? returns the error
McpAnalyzeFailed(c) ==
    /\ m_calls[c].pc = "analyze"
    /\ m_runs' = m_runs + 1
    /\ m_calls' = [m_calls EXCEPT ![c].answer = <<"Err">>, ![c].pc = "done"]
    /\ UNCHANGED <<m_cache, secondVars, jsonVars, patchVars>>

\* get_result: under the lock, the cache is overwritten; the result is returned
StoreCache(c) ==
    /\ m_calls[c].pc = "store"
    /\ m_cache' = <<"Some", [key |-> m_calls[c].key, result |-> m_calls[c].result[2]]>>
    /\ m_calls' = [m_calls EXCEPT ![c].answer = <<"Ok", m_calls[c].result[2]>>,
                                  ![c].pc = "done"]
    /\ UNCHANGED <<m_runs, secondVars, jsonVars, patchVars>>

NextMcp ==
    \E c \in CallIds :
        \/ McpCall(c)
        \/ CheckCache(c)
        \/ McpAnalyzeOk(c)
        \/ McpAnalyzeFailed(c)
        \/ StoreCache(c)

SpecMcp == InitMcp /\ [][NextMcp]_vars

(***************************************************************************)
(* Claims on untangle                                                      *)
(***************************************************************************)
ReviewIds == {reviews[i].entity_id : i \in DOMAIN reviews}

\* the places <<group, position>> at which entity id e stands in the groups
Places(e) ==
    {p \in UNION {{<<g, k>> : k \in DOMAIN groups[g].entity_ids} : g \in DOMAIN groups} :
        groups[p[1]].entity_ids[p[2]] = e}

\* C2: when the reviews' entity_ids are pairwise distinct, the groups untangle
\* returns partition the reviews: every group is non-empty, every entity_id in
\* a group is the entity_id of a review, and every review's entity_id stands
\* at exactly one place of exactly one group.
C2_GroupsPartitionReviews ==
    (u_pc = "done" /\ Injective([i \in DOMAIN reviews |-> reviews[i].entity_id])) =>
        /\ \A g \in DOMAIN groups : Len(groups[g].entity_ids) >= 1
        /\ \A g \in DOMAIN groups : Range(groups[g].entity_ids) \subseteq ReviewIds
        /\ \A e \in ReviewIds : Cardinality(Places(e)) = 1

\* C2 witness: three reviews fall into a group of two and a group of one, with
\* an edge that names an unknown id, a self-edge or a repeated edge in the input.
C2_Witness ==
    /\ u_pc = "done"
    /\ Len(reviews) = 3
    /\ Len(groups) = 2
    /\ Len(groups[1].entity_ids) = 2
    /\ Len(dependency_edges) = 2
    /\ \/ "z" \in {dependency_edges[2][1], dependency_edges[2][2]}
       \/ dependency_edges[2][1] = dependency_edges[2][2]
       \/ dependency_edges[1] = dependency_edges[2]

\* the undirected graph on the reviews' entity ids: the given edges with both
\* endpoints among them
Adjacent(x, y) ==
    /\ x \in ReviewIds
    /\ y \in ReviewIds
    /\ \E k \in DOMAIN dependency_edges :
          dependency_edges[k] = <<x, y>> \/ dependency_edges[k] = <<y, x>>

\* the ids reachable from the set S in at most n steps of the graph
RECURSIVE ReachableFrom(_, _)
ReachableFrom(S, n) ==
    IF n = 0 THEN S
    ELSE ReachableFrom(S \cup {y \in ReviewIds : \E x \in S : Adjacent(x, y)}, n - 1)

Connected(x, y) == y \in ReachableFrom({x}, Cardinality(ReviewIds))

SameGroup(x, y) ==
    \E g \in DOMAIN groups : {x, y} \subseteq Range(groups[g].entity_ids)

\* C3: two reviews are in the same group exactly when their entity ids are
\* connected in the undirected graph of the dependency edges that have both
\* endpoints among the reviews' entity ids. With no edge every review is a
\* group of its own.
C3_SameGroupIffConnected ==
    u_pc = "done" =>
        /\ \A x, y \in ReviewIds : SameGroup(x, y) <=> Connected(x, y)
        /\ dependency_edges = << >> => Len(groups) = Len(reviews)

\* C3 witness: the chain a-b, b-c over three reviews gives one group of three.
C3_Witness ==
    /\ u_pc = "done"
    /\ dependency_edges = <<<<"a", "b">>, <<"b", "c">>>>
    /\ Len(reviews) = 3
    /\ Len(groups) = 1
    /\ Len(groups[1].entity_ids) = 3

\* the position of the review of entity e in the argument reviews
ReviewIndex(e) == CHOOSE i \in DOMAIN reviews : reviews[i].entity_id = e

\* C15: the groups untangle returns are sorted by member count descending, the
\* group at position i (from 0) has id i, and within a group the entity_ids
\* stand in the order of their reviews in the input list.
C15_GroupsSortedAndNumbered ==
    u_pc = "done" =>
        /\ \A k \in 1..(Len(groups) - 1) :
              Len(groups[k].entity_ids) >= Len(groups[k + 1].entity_ids)
        /\ \A k \in DOMAIN groups : groups[k].id = k - 1
        /\ \A k \in DOMAIN groups :
              \A i, j \in DOMAIN groups[k].entity_ids :
                  i < j => ReviewIndex(groups[k].entity_ids[i])
                           < ReviewIndex(groups[k].entity_ids[j])

\* C15 witness: three reviews of which the second and the third are joined: the
\* group of two stands first with id 0, its members in input order, and the
\* group of the first review follows with id 1.
C15_Witness ==
    /\ u_pc = "done"
    /\ Len(reviews) = 3
    /\ Len(groups) = 2
    /\ groups[1].id = 0
    /\ groups[1].entity_ids = <<reviews[2].entity_id, reviews[3].entity_id>>
    /\ groups[2].id = 1
    /\ groups[2].entity_ids = <<reviews[1].entity_id>>

\* the reviews of the members of a group, in the group's order
Members(g) == [k \in DOMAIN g.entity_ids |-> reviews[ReviewIndex(g.entity_ids[k])]]

\* the length of the longest prefix all the paths have in common
LongestCommonLen(paths) ==
    CHOOSE n \in 0..Len(paths[1]) :
        /\ \A k \in DOMAIN paths : Len(paths[k]) >= n /\ SubSeq(paths[k], 1, n) = SubSeq(paths[1], 1, n)
        /\ \A m \in (n + 1)..Len(paths[1]) :
              \E k \in DOMAIN paths : Len(paths[k]) < m \/ SubSeq(paths[k], 1, m) # SubSeq(paths[1], 1, m)

\* the longest common prefix of the paths, cut just after its last slash: empty
\* when it holds no slash
DirectoryPrefix(paths) ==
    LET lcp == SubSeq(paths[1], 1, LongestCommonLen(paths))
        slashes == {i \in DOMAIN lcp : lcp[i] = "/"}
    IN  IF slashes = {} THEN << >>
        ELSE SubSeq(lcp, 1, CHOOSE i \in slashes : \A j \in slashes : j <= i)

\* C18: the label of a group is the entity_name of its member when it has one
\* member; otherwise the longest common prefix of the members' file paths cut
\* just after its last slash; and "N entities" when there is no such prefix.
C18_LabelIsDirectoryPrefix ==
    u_pc = "done" =>
        \A k \in DOMAIN groups :
            LET ms == Members(groups[k])
                dir == DirectoryPrefix([i \in DOMAIN ms |-> ms[i].file_path])
            IN  groups[k].label =
                    IF Len(ms) = 1 THEN ms[1].entity_name
                    ELSE IF dir = << >> THEN CountLabel(Len(ms))
                    ELSE dir

(***************************************************************************)
(* Claims on classify_change                                               *)
(***************************************************************************)
Before == UnwrapOrEmpty(change.before_content)

After == UnwrapOrEmpty(change.after_content)

\* C4, as claimed: every change whose structural_change is Some(false) is
\* classified Text, whatever its contents are.
C4_CosmeticAlwaysText ==
    (c_pc = "done" /\ change.structural_change = <<"Some", FALSE>>) =>
        c_review.classification = "Text"

\* C4, amended: a change whose structural_change is Some(false) is classified
\* Text when its before and after contents are both present and non-empty; the
\* empty-content rule is applied first, so with an absent or empty content it is
\* classified Functional.
C4_CosmeticTextWhenBothNonEmpty ==
    (c_pc = "done" /\ change.structural_change = <<"Some", FALSE>>) =>
        /\ (Before # << >> /\ After # << >>) => c_review.classification = "Text"
        /\ (Before = << >> \/ After = << >>) => c_review.classification = "Functional"

\* C4 witness: a change with structural_change Some(false) whose contents are
\* non-empty and differ in a statement, classified Text.
C4_Witness ==
    /\ c_pc = "done"
    /\ change.structural_change = <<"Some", FALSE>>
    /\ Before = <<"x">>
    /\ After = <<"f", "n", " ", "f">>
    /\ c_review.classification = "Text"

\* C5: every change whose before_content or after_content is absent or empty is
\* classified Functional, and the review of an added entity (no before content)
\* has change_type Added and classification Functional.
C5_EmptyContentIsFunctional ==
    c_pc = "done" =>
        /\ (Before = << >> \/ After = << >>) => c_review.classification = "Functional"
        /\ (change.change_type = "Added" /\ change.before_content = <<"None">>) =>
              (c_review.change_type = "Added" /\ c_review.classification = "Functional")

\* C5 witness: an added entity, before content absent and structural_change
\* Some(false), reviewed as Added and Functional.
C5_Witness ==
    /\ c_pc = "done"
    /\ change.change_type = "Added"
    /\ change.before_content = <<"None">>
    /\ After = <<"f", "n", " ", "f", "NL", "x">>
    /\ change.structural_change = <<"Some", FALSE>>
    /\ c_review.change_type = "Added"
    /\ c_review.classification = "Functional"

\* C6: for a change whose structural_change is defined, classification Text
\* implies structural_change == Some(false): no change with Some(true) is
\* classified Text.
C6_TextImpliesCosmetic ==
    (c_pc = "done" /\ change.structural_change # <<"None">>
        /\ c_review.classification = "Text") =>
        change.structural_change = <<"Some", FALSE>>

\* the dimension of one differing line
Dimension(line) ==
    IF is_comment_line(line) THEN "Text"
    ELSE IF is_syntax_line(line) THEN "Syntax"
    ELSE "Functional"

\* the non-empty trimmed lines that are in one content and not in the other
SymmetricDifference(before, after) ==
    LET B == {l \in {Trim(x) : x \in Range(Lines(before))} : l # << >>}
        A == {l \in {Trim(x) : x \in Range(Lines(after))} : l # << >>}
    IN  (B \ A) \cup (A \ B)

\* the variant that stands for a non-empty set of dimensions
VariantOf(dims) ==
    CASE dims = {"Text"} -> "Text"
      [] dims = {"Syntax"} -> "Syntax"
      [] dims = {"Functional"} -> "Functional"
      [] dims = {"Text", "Syntax"} -> "TextSyntax"
      [] dims = {"Text", "Functional"} -> "TextFunctional"
      [] dims = {"Syntax", "Functional"} -> "SyntaxFunctional"
      [] dims = {"Text", "Syntax", "Functional"} -> "TextSyntaxFunctional"

\* C7: for a change with both contents non-empty and structural_change not
\* Some(false), the classification is the variant of the set of dimensions seen
\* over the symmetric difference of the non-empty trimmed lines; when that
\* difference is empty it is Functional if the trimmed contents differ and Text
\* if they are equal.
C7_VariantOfObservedDimensions ==
    (c_pc = "done" /\ Before # << >> /\ After # << >>
        /\ change.structural_change # <<"Some", FALSE>>) =>
        LET dims == {Dimension(l) : l \in SymmetricDifference(Before, After)}
        IN  c_review.classification =
                IF dims # {} THEN VariantOf(dims)
                ELSE IF Trim(Before) # Trim(After) THEN "Functional"
                ELSE "Text"

\* C7 witness: the contents differ in a comment that holds an arrow, in a
\* declaration and in a statement, and the change is TextSyntaxFunctional.
C7_Witness ==
    /\ c_pc = "done"
    /\ change.structural_change = <<"Some", TRUE>>
    /\ Before = <<"/", "/", "-", ">", "NL", "x">>
    /\ After = <<"f", "n", " ", "f">>
    /\ c_review.classification = "TextSyntaxFunctional"

(***************************************************************************)
(* Claims on the risk scorer                                               *)
(***************************************************************************)
\* C8: for every review and every total_entities the score compute_risk_score
\* returns, which analyze stores in the review, is between 0 and 1.
C8_ScoreInUnitInterval ==
    r_pc = "done" => (0 <= r_review.risk_score /\ r_review.risk_score <= One)

\* C8 witness: a review whose sum of terms exceeds 1.0 and whose score is 1.0.
C8_Witness ==
    /\ r_pc = "done"
    /\ RawScore(r_review, total_entities) > One
    /\ r_review.structural_change # <<"Some", FALSE>>
    /\ r_review.dependent_count >= 3
    /\ r_review.risk_score = One

\* scores at and next to the thresholds
ProbeScores == {0, 2999, 3000, 4999, 5000, 6999, 7000, One}

\* C9: the risk_level analyze stores is the threshold band of the risk_score it
\* stores: Critical iff score >= 0.7, High iff 0.5 <= score < 0.7, Medium iff
\* 0.3 <= score < 0.5, Low iff score < 0.3; and a score that is not lower never
\* has a lower level.
C9_LevelIsBandOfScore ==
    r_pc = "done" =>
        LET sc == r_review.risk_score
            lv == r_review.risk_level
        IN  /\ lv \in RiskLevels
            /\ (lv = "Critical") <=> (sc >= 7000)
            /\ (lv = "High") <=> (5000 <= sc /\ sc < 7000)
            /\ (lv = "Medium") <=> (3000 <= sc /\ sc < 5000)
            /\ (lv = "Low") <=> (sc < 3000)
            /\ \A p \in ProbeScores :
                  /\ p <= sc => LevelRank(score_to_level(p)) <= LevelRank(lv)
                  /\ p >= sc => LevelRank(score_to_level(p)) >= LevelRank(lv)

\* C9 witness: a Modified Functional private review without graph impact scores
\* exactly 0.30 and is Medium.
C9_Witness ==
    /\ r_pc = "done"
    /\ r_review.classification = "Functional"
    /\ r_review.change_type = "Modified"
    /\ r_review.risk_score = 3000
    /\ r_review.risk_level = "Medium"

\* C10: a review with structural_change == Some(false), blast_radius 0 and
\* dependent_count 0 scores below 0.3 and is Low, whatever its classification,
\* change type and public-API flag.
C10_CosmeticNoImpactIsLow ==
    (r_pc = "done" /\ r_review.structural_change = <<"Some", FALSE>>
        /\ r_review.blast_radius = 0 /\ r_review.dependent_count = 0) =>
        (r_review.risk_score < 3000 /\ r_review.risk_level = "Low")

\* C10 witness: the heaviest such review (TextSyntaxFunctional, Deleted, public)
\* scores 0.104.
C10_Witness ==
    /\ r_pc = "done"
    /\ r_review.structural_change = <<"Some", FALSE>>
    /\ r_review.blast_radius = 0
    /\ r_review.dependent_count = 0
    /\ r_review.classification = "TextSyntaxFunctional"
    /\ r_review.change_type = "Deleted"
    /\ r_review.is_public_api
    /\ r_review.risk_score = 1040
    /\ r_review.risk_level = "Low"

\* the weight table of the risk scorer as the specification prints it, in
\* ten-thousandths
TableClassificationWeight ==
    [Text |-> 0, Syntax |-> 800, Functional |-> 2200, TextSyntax |-> 1000,
     TextFunctional |-> 2200, SyntaxFunctional |-> 2500, TextSyntaxFunctional |-> 2800]

TableChangeTypeWeight ==
    [Deleted |-> 1200, Modified |-> 800, Renamed |-> 400, Moved |-> 0, Added |-> 200]

WhitespaceEdit(ch) ==
    /\ ch.change_type = "Modified"
    /\ ch.before_content[1] = "Some" /\ ch.before_content[2] # << >>
    /\ ch.after_content[1] = "Some" /\ ch.after_content[2] # << >>
    /\ ch.structural_change = <<"Some", FALSE>>

\* the reviews of the result that are about the entity id
ReviewsOf(result, id) ==
    {result.entity_reviews[i] : i \in {k \in DOMAIN result.entity_reviews :
                                          result.entity_reviews[k].entity_id = id}}

\* the number of reviews of the result that are about the entity id
ReviewCount(result, id) ==
    Cardinality({k \in DOMAIN result.entity_reviews :
                    result.entity_reviews[k].entity_id = id})

\* C11 as stated: a whitespace edit gets exactly one review, which is Modified,
\* Text and Low, for every number of dependents, blast radius and public-API
\* flag.
C11_WhitespaceEditAlwaysLow ==
    \A n \in DOMAIN a_results : \A i \in DOMAIN a_changes :
        WhitespaceEdit(a_changes[i]) =>
            /\ ReviewCount(a_results[n], a_changes[i].entity_id) = 1
            /\ \A r \in ReviewsOf(a_results[n], a_changes[i].entity_id) :
                  /\ r.change_type = "Modified"
                  /\ r.classification = "Text"
                  /\ r.risk_level = "Low"

\* C11 amended: a whitespace edit gets exactly one review, which is Modified and
\* Text; it is Low when the entity has at most 500 dependents and a blast
\* radius of at most the node count of the graph, and the level is the band of
\* a fifth of the undiscounted sum in every case.
C11_WhitespaceEditLowUnlessHub ==
    \A n \in DOMAIN a_results : \A i \in DOMAIN a_changes :
        WhitespaceEdit(a_changes[i]) =>
            /\ ReviewCount(a_results[n], a_changes[i].entity_id) = 1
            /\ \A r \in ReviewsOf(a_results[n], a_changes[i].entity_id) :
                  /\ r.change_type = "Modified"
                  /\ r.classification = "Text"
                  /\ (r.dependent_count <= 500 /\ r.blast_radius <= a_graph.entities)
                        => r.risk_level = "Low"
                  /\ r.risk_level =
                        score_to_level(Min((RawScore(r, a_graph.entities) * 2) \div 10, One))

\* C11 witness: the whitespace edit of a public entity with a hundred
\* dependents or more is reviewed as Modified, Text and Low.
C11_Witness ==
    /\ a_pc = "once"
    /\ \E i \in DOMAIN a_changes :
          /\ WhitespaceEdit(a_changes[i])
          /\ \E r \in ReviewsOf(a_results[1], a_changes[i].entity_id) :
                /\ r.is_public_api
                /\ r.dependent_count >= 100
                /\ r.blast_radius >= 100
                /\ r.change_type = "Modified"
                /\ r.classification = "Text"
                /\ r.risk_level = "Low"

\* the order of the entity ids as strings
IdRank(id) == CASE id = "a" -> 1 [] id = "b" -> 2 [] id = "c" -> 3 [] OTHER -> 4

\* C14: entity_reviews of every result of analyze is sorted by risk_score
\* descending, then entity_id ascending: of two consecutive reviews the first
\* has the higher score, or the same score and an entity_id that is not larger.
C14_SortedByScoreThenId ==
    \A n \in DOMAIN a_results :
        LET rs == a_results[n].entity_reviews
        IN  \A i \in 1..(Len(rs) - 1) :
               \/ rs[i].risk_score > rs[i + 1].risk_score
               \/ /\ rs[i].risk_score = rs[i + 1].risk_score
                  /\ IdRank(rs[i].entity_id) <= IdRank(rs[i + 1].entity_id)

\* C16: two runs of analyze on the same changes and the same graph return the
\* same result: the same order of the groups, the same id for each group and
\* the same group_id in each review.
C16_RunsAgree ==
    a_pc = "twice" => a_results[1] = a_results[2]

\* the sum of the fields of a record of counts
RECURSIVE SumOver(_, _)
SumOver(counts, fields) ==
    IF fields = {} THEN 0
    ELSE LET f == CHOOSE x \in fields : TRUE
         IN  counts[f] + SumOver(counts, fields \ {f})

SumOfCounts(counts) == SumOver(counts, DOMAIN counts)

\* C17: in every result of analyze, the empty one included, the by_risk counts
\* sum to entity_reviews.len(), which is stats.total_entities, and the
\* by_classification counts and the by_change_type counts sum to it as well.
C17_StatsSumToReviewCount ==
    \A n \in DOMAIN a_results :
        LET res == a_results[n]
        IN  /\ SumOfCounts(res.stats.by_risk) = Len(res.entity_reviews)
            /\ res.stats.total_entities = Len(res.entity_reviews)
            /\ SumOfCounts(res.stats.by_classification) = Len(res.entity_reviews)
            /\ SumOfCounts(res.stats.by_change_type) = Len(res.entity_reviews)
            /\ DOMAIN res.stats.by_risk = {"critical", "high", "medium", "low"}

\* C17 witness: a result with two reviews, one of them of a mixed
\* classification and one of them Critical.
C17_Witness ==
    /\ a_pc = "once"
    /\ Len(a_results[1].entity_reviews) = 2
    /\ a_results[1].stats.total_entities = 2
    /\ a_results[1].stats.by_classification.mixed = 1
    /\ a_results[1].stats.by_risk.critical = 1
    /\ SumOfCounts(a_results[1].stats.by_risk) = 2

\* C17 witness of the empty result: no change, all counts zero.
C17_WitnessEmpty ==
    /\ a_pc = "once"
    /\ a_changes = << >>
    /\ a_results[1].entity_reviews = << >>
    /\ a_results[1].stats.total_entities = 0

(***************************************************************************)
(* Claims on the verdict                                                   *)
(***************************************************************************)
\* C13: whenever a command prints a verdict for the result it hands to
\* suggest_verdict, filtered or not, the verdict is RequiresCarefulReview if a
\* review of entity_reviews is Critical, else RequiresReview if one is High,
\* else LikelyApprovable if entity_reviews is non-empty and all its reviews
\* have structural_change == Some(false), else StandardReview.
C13_VerdictFollowsReviews ==
    (cli_pc = "done" /\ cli_out.verdict[1] = "Some") =>
        cli_out.verdict[2] = suggest_verdict_by_reviews(cli_out.result)

(***************************************************************************)
(* Claims on the noise filter                                              *)
(***************************************************************************)
\* the pieces of s between slashes
RECURSIVE SplitSlash(_, _, _)
SplitSlash(str, i, cur) ==
    IF i > Len(str) THEN <<cur>>
    ELSE IF str[i] = "/" THEN <<cur>> \o SplitSlash(str, i + 1, << >>)
    ELSE SplitSlash(str, i + 1, Append(cur, str[i]))

\* the final slash-separated component of a path
FinalComponent(path) ==
    LET pieces == SplitSlash(path, 1, << >>) IN pieces[Len(pieces)]

\* C19: is_noise_file(path) is true exactly when the final component of the
\* path is one of the exact names, or the path ends with one of the suffixes,
\* or the path starts with one of the prefixes; Cargo.lock, dist/app.js,
\* app.min.js and some/path/yarn.lock are noise and src/main.rs is not.
C19_NoiseIffListed ==
    n_pc = "done" =>
        /\ n_result <=>
              \/ FinalComponent(n_path) \in NOISE_EXACT
              \/ \E k \in 1..Len(n_path) :
                    SubSeq(n_path, k, Len(n_path)) \in NOISE_EXTENSIONS
              \/ \E k \in 1..Len(n_path) :
                    SubSeq(n_path, 1, k) \in NOISE_PREFIXES
        /\ n_path \in {<<"C", "a", "r", "g", "o", ".", "l", "o", "c", "k">>, <<"d", "i", "s", "t", "/", "a", "p", "p", ".", "j", "s">>,
                        <<"a", "p", "p", ".", "m", "i", "n", ".", "j", "s">>,
                        <<"s", "o", "m", "e", "/", "p", "a", "t", "h", "/", "y", "a", "r", "n", ".", "l", "o", "c", "k">>}
              => n_result
        /\ n_path = <<"s", "r", "c", "/", "m", "a", "i", "n", ".", "r", "s">> => ~n_result

\* C19 witness: some/path/yarn.lock is noise by its file name alone.
C19_Witness ==
    /\ n_pc = "done"
    /\ n_path = <<"s", "o", "m", "e", "/", "p", "a", "t", "h", "/", "y", "a", "r", "n", ".", "l", "o", "c", "k">>
    /\ n_result

(***************************************************************************)
(* Claims on remote analysis                                               *)
(***************************************************************************)
\* C20: in each of the three handlers no content of a noise file is ever
\* requested, no file pair of a noise file is ever built, and so none is handed
\* to analyze_remote; requests and pairs exist only once visible_files has
\* been computed.
C20_NoNoisePairAnalyzed ==
    /\ \A req \in rm_fetches : ~is_noise_file(req[1])
    /\ \A i \in DOMAIN rm_pairs : ~is_noise_file(rm_pairs[i].filename)
    /\ rm_analyzed[1] = "Some" =>
           \A i \in DOMAIN rm_analyzed[2] : ~is_noise_file(rm_analyzed[2][i].filename)
    /\ (rm_fetches # {} \/ rm_pairs # << >>) => rm_pc \in {"paired", "analyzed"}
    /\ rm_pc \in {"paired", "analyzed"} =>
           [i \in DOMAIN rm_pairs |-> rm_pairs[i].filename]
               = [i \in DOMAIN rm_visible |-> rm_visible[i].filename]

\* C20 witness: a pull request with a lockfile and a source file; the one pair
\* handed to analyze_remote is the source file's.
C20_Witness ==
    /\ rm_pc = "analyzed"
    /\ Len(rm_files) = 2
    /\ \E i \in DOMAIN rm_files : is_noise_file(rm_files[i].filename)
    /\ rm_analyzed[1] = "Some"
    /\ Len(rm_analyzed[2]) = 1
    /\ rm_analyzed[2][1].filename = <<"s", "r", "c", "/", "m", "a", "i", "n", ".", "r", "s">>


(***************************************************************************)
(* Claims on the JSON formatter                                            *)
(***************************************************************************)
\* C21: in the JSON of a result every risk level is written as one of "low",
\* "medium", "high", "critical" and every classification as one of "text",
\* "syntax", "functional", "text+syntax", "text+functional",
\* "syntax+functional", "text+syntax+functional".
C21_EnumsWrittenLowercase ==
    j_pc = "done" =>
        /\ j_out.risk_level = fmt_risk_level(j_review.risk_level)
        /\ j_out.classification = fmt_classification(j_review.classification)
        /\ j_out.risk_level \in {"low", "medium", "high", "critical"}
        /\ j_out.classification \in
               {"text", "syntax", "functional", "text+syntax", "text+functional",
                "syntax+functional", "text+syntax+functional"}


(***************************************************************************)
(* Claims on the patch parser                                              *)
(***************************************************************************)
\* the positions in the patch of the lines that begin with "@@"
HeaderPositions == {i \in DOMAIN p_patch : StartsWith(p_patch[i], <<"@", "@">>)}

\* the position of the n-th of them
HeaderPosition(n) ==
    CHOOSE i \in HeaderPositions : Cardinality({j \in HeaderPositions : j <= i}) = n

\* the position of the last line of the n-th hunk
HunkEnd(n) ==
    IF n < Cardinality(HeaderPositions) THEN HeaderPosition(n + 1) - 1 ELSE Len(p_patch)

\* what a line of a hunk is, by its first character
LineKind(raw) ==
    IF StartsWith(raw, <<"+">>) THEN "add"
    ELSE IF StartsWith(raw, <<"-">>) THEN "delete"
    ELSE "context"

\* how many of the lines of the patch from position a to position b are of the kinds
CountKinds(a, b, kinds) == Cardinality({j \in a..b : LineKind(p_patch[j]) \in kinds})

\* the new_line numbers of the added and context lines from position i on,
\* where hunk n is the one position i falls in or after
RECURSIVE ExpectedCommentable(_, _)
ExpectedCommentable(i, n) ==
    IF i > Len(p_patch) THEN << >>
    ELSE IF i \in HeaderPositions THEN ExpectedCommentable(i + 1, n + 1)
    ELSE IF n = 0 \/ LineKind(p_patch[i]) = "delete" THEN ExpectedCommentable(i + 1, n)
    ELSE <<p_hunks[n].new_start
             + CountKinds(HeaderPosition(n) + 1, i - 1, {"add", "context"})>>
         \o ExpectedCommentable(i + 1, n)

\* C22: parse_patch starts one hunk per line beginning with "@@"; within a hunk
\* the k-th added-or-context line has new_line = new_start + k and the k-th
\* deleted-or-context line old_line = old_start + k; a deleted line has no
\* new_line and is not commentable; commentable_lines is, in patch order, the
\* new_line of every added and context line.
C22_LinesNumberedFromHeader ==
    p_pc = "done" =>
        /\ Len(p_hunks) = Cardinality(HeaderPositions)
        /\ \A n \in DOMAIN p_hunks :
               LET first == HeaderPosition(n) + 1
                   h == p_hunks[n]
               IN  /\ Len(h.lines) = HunkEnd(n) - HeaderPosition(n)
                   /\ \A i \in DOMAIN h.lines :
                          LET kind == LineKind(p_patch[first + i - 1])
                              l == h.lines[i]
                          IN  /\ l.kind = kind
                              /\ kind \in {"add", "context"} =>
                                     l.new_line = <<"Some", h.new_start
                                         + CountKinds(first, first + i - 2, {"add", "context"})>>
                              /\ kind \in {"delete", "context"} =>
                                     l.old_line = <<"Some", h.old_start
                                         + CountKinds(first, first + i - 2, {"delete", "context"})>>
                              /\ kind = "delete" => l.new_line = <<"None">> /\ ~l.commentable
                              /\ kind = "add" => l.old_line = <<"None">>
        /\ p_commentable = ExpectedCommentable(1, 0)

\* a patch of two hunks, the first with a deleted line and then a context
\* line, the second numbered from a header without counts
C22_Witness ==
    /\ p_pc = "done"
    /\ Len(p_hunks) = 2
    /\ Len(p_hunks[1].lines) = 2
    /\ p_hunks[1].lines[1].kind = "delete"
    /\ p_hunks[1].lines[2].kind = "context"
    /\ p_hunks[1].new_start = 10
    /\ p_hunks[2].new_start = 7
    /\ p_commentable = <<10>>


(***************************************************************************)
(* Claims on the fields of a job, its task and the lookups                 *)
(***************************************************************************)
\* the result and the error a job of each status holds
FieldsMatchStatus(job) ==
    /\ job.status = "Complete" => job.result # None /\ job.error = None
    /\ job.status = "Failed" => job.error # None /\ job.result = None
    /\ job.status \in {"Pending", "Analyzing", "Reviewing"} =>
           job.result = None /\ job.error = None

\* a step that leaves every job that is Complete or Failed as it is
TerminalJobsKept ==
    \A id \in DOMAIN jobs :
        jobs[id].status \in {"Complete", "Failed"} =>
            id \in DOMAIN jobs' /\ jobs'[id] = jobs[id]

\* C24: in every reachable state, a Complete job has a result and no error, a
\* Failed job an error and no result, a Pending, Analyzing or Reviewing job
\* neither; and once a job is Complete or Failed no field of it is written again.
C24_FieldsFollowStatus ==
    /\ [](\A id \in DOMAIN jobs : FieldsMatchStatus(jobs[id]))
    /\ [][TerminalJobsKept]_vars

\* one job Complete and one Failed, both tasks over
C24_Witness ==
    \E a, b \in DOMAIN jobs :
        /\ jobs[a].status = "Complete" /\ jobs[a].result # None
        /\ jobs[b].status = "Failed" /\ jobs[b].error # None
        /\ pc[a] = "done" /\ pc[b] = "done"

\* the job exists and is Complete or Failed
Terminal(id) == id \in DOMAIN jobs /\ jobs[id].status \in {"Complete", "Failed"}

\* a failure of GitHub auth, the PR fetch, the analysis or the diff fetch
FailureStep(id) ==
    AuthFailed(id) \/ GetPrFailed(id) \/ AnalyzeFailed(id) \/ FetchDiffFailed(id)

\* C25: under fair scheduling of the background task, with every external call
\* returning, every job created by POST /v1/review is eventually Complete or
\* Failed (none stays Pending, Analyzing or Reviewing forever), and each
\* failure of GitHub auth, PR fetch, analysis or diff fetch leaves it Failed.
C25_EveryJobEnds ==
    /\ \A id \in JobIds : (id \in DOMAIN jobs) ~> Terminal(id)
    /\ [][\A id \in JobIds : FailureStep(id) => jobs'[id].status = "Failed"]_vars

\* the part of C25 on the four failures alone
C25_FailuresLeadToFailed ==
    [][\A id \in JobIds : FailureStep(id) => jobs'[id].status = "Failed"]_vars

\* C26: a job is in the store from before its background task starts and is
\* never removed; GET /v1/review/:id for an id that create_review returned
\* never answers 'job not found'; the lookup of the job in run_review
\* (jobs.get(..).unwrap()) never fails.
C26_JobPresentForTaskAndGet ==
    /\ [](\A id \in JobIds :
            /\ pc[id] # "none" => id \in DOMAIN jobs
            /\ pc[id] # "panicked")
    /\ [][/\ DOMAIN jobs \subseteq DOMAIN jobs'
          /\ \A id \in JobIds :
                 GetReview(id) /\ pc[id] # "none" => get_response' = <<id, "200">>
          /\ \A id \in JobIds :
                 pc[id] = "none" /\ pc'[id] # "none" =>
                     id \in DOMAIN jobs' /\ jobs'[id].status = "Pending"]_vars

\* a task is past its lookup of the job and GET answered 200 for its id
C26_Witness ==
    \E id \in DOMAIN jobs :
        /\ pc[id] = "get_pr"
        /\ get_response = <<id, "200">>


(***************************************************************************)
(* Claims on the result cache of the MCP server                            *)
(***************************************************************************)
\* C27: under every interleaving of tool calls, the cache holds only a result
\* that a successful analysis of its own key produced; get_result answers with
\* the cached result when the key matches, without running analyze, or with a
\* result freshly computed for its own key, never with another key's; a
\* failed analysis leaves the cache as it was.
C27_CacheHoldsResultOfItsKey ==
    /\ [](/\ m_cache[1] = "Some" =>
                /\ m_cache[2].result.key = m_cache[2].key
                /\ m_cache[2].result.run \in 1..m_runs
          /\ \A c \in CallIds :
                m_calls[c].answer[1] = "Ok" => m_calls[c].answer[2].key = m_calls[c].key)
    /\ [][\A c \in CallIds :
            /\ McpAnalyzeFailed(c) => m_cache' = m_cache
            /\ (CheckCache(c) /\ m_cache[1] = "Some" /\ m_cache[2].key = m_calls[c].key) =>
                   /\ m_calls'[c].answer = <<"Ok", m_cache[2].result>>
                   /\ m_runs' = m_runs
            /\ (m_calls[c].answer[1] = "None" /\ m_calls'[c].answer[1] = "Ok") =>
                   \/ m_cache[1] = "Some" /\ m_cache[2].key = m_calls[c].key
                          /\ m_calls'[c].answer[2] = m_cache[2].result
                   \/ m_calls'[c].result = <<"Some", m_calls'[c].answer[2]>>]_vars

\* two calls with one key, the second answered from the cache with the result
\* of the first, and a third analysis of the other key that failed
C27_Witness ==
    \E a, b, c \in CallIds :
        /\ m_calls[a].key = m_calls[b].key /\ a # b
        /\ m_calls[a].answer = <<"Ok", [key |-> m_calls[a].key, run |-> 1]>>
        /\ m_calls[b].answer = m_calls[a].answer
        /\ m_calls[b].result = <<"None">>
        /\ m_calls[c].key # m_calls[a].key
        /\ m_calls[c].answer = <<"Err">>
        /\ m_cache = <<"Some", [key |-> m_calls[a].key, result |-> m_calls[a].answer[2]]>>


(***************************************************************************)
(* Claims on the group of a review                                         *)
(***************************************************************************)
\* C28: in every result of analyze, every review r has exactly one group g with
\* g.id = r.group_id, and the entity_ids of g hold r.entity_id.
C28_GroupIdNamesGroupOfReview ==
    \A n \in DOMAIN a_results :
        LET res == a_results[n]
        IN  \A i \in DOMAIN res.entity_reviews :
                LET r == res.entity_reviews[i]
                    named == {k \in DOMAIN res.groups : res.groups[k].id = r.group_id}
                IN  /\ Cardinality(named) = 1
                    /\ \A k \in named : r.entity_id \in Range(res.groups[k].entity_ids)

\* a result of two groups, with a review in the second
C28_Witness ==
    \E n \in DOMAIN a_results :
        /\ Len(a_results[n].groups) = 2
        /\ \E i \in DOMAIN a_results[n].entity_reviews :
               /\ a_results[n].entity_reviews[i].group_id = 1
               /\ a_results[n].groups[2].id = 1
               /\ a_results[n].entity_reviews[i].entity_id
                      \in Range(a_results[n].groups[2].entity_ids)


(***************************************************************************)
(* Claims on deleted entities                                              *)
(***************************************************************************)
\* the change of the diff a review was built from
ChangeOf(r) == a_changes[CHOOSE i \in DOMAIN a_changes : a_changes[i].entity_id = r.entity_id]

\* the review of a Deleted change whose entity the graph does not hold
DeletedAndAbsent(r) ==
    /\ r.change_type = "Deleted"
    /\ ChangeOf(r).after_content = <<"None">>
    /\ r.entity_id \notin GraphNodes(a_graph)

\* the convention on names: a capitalised function, method, struct or interface
CapitalisedName(r) ==
    /\ r.entity_type \in {"function", "method", "struct", "interface"}
    /\ r.entity_name # << >>
    /\ IsUppercase(r.entity_name[1])

\* C29: a Deleted change whose entity_id is absent from the graph and whose
\* after_content is absent gets dependent_count = 0, dependency_count = 0,
\* blast_radius = 0 and start_line = end_line = 0, its public-API flag from the
\* capitalised-name convention alone, and a risk level below High.
C29_DeletedNeverHigh ==
    \A n \in DOMAIN a_results :
        \A i \in DOMAIN a_results[n].entity_reviews :
            LET r == a_results[n].entity_reviews[i]
            IN  DeletedAndAbsent(r) =>
                    /\ r.dependent_count = 0
                    /\ r.dependency_count = 0
                    /\ r.blast_radius = 0
                    /\ r.start_line = 0 /\ r.end_line = 0
                    /\ r.is_public_api = CapitalisedName(r)
                    /\ r.risk_level \in {"Low", "Medium"}

\* a deleted public function scored Medium beside a deleted class, capitalised
\* yet not public
C29_Witness ==
    \E n \in DOMAIN a_results :
        \E i, j \in DOMAIN a_results[n].entity_reviews :
            LET r == a_results[n].entity_reviews[i]
                q == a_results[n].entity_reviews[j]
            IN  /\ DeletedAndAbsent(r) /\ r.is_public_api /\ r.risk_level = "Medium"
                /\ DeletedAndAbsent(q) /\ q.entity_type = "class" /\ ~q.is_public_api


(***************************************************************************)
(* Claims on the filters of the CLI                                        *)
(***************************************************************************)
\* the minimum a value of --min-risk stands for: critical, high or medium in
\* any case of letters, Low for every other string
ClaimedMinimum(str) ==
    CASE str \in {"critical", "CRITICAL"} -> "Critical"
      [] str \in {"high", "HIGH"} -> "High"
      [] str \in {"medium", "MEDIUM"} -> "Medium"
      [] OTHER -> "Low"

\* the reviews the command is to print
Kept(r) ==
    /\ cli_args.min_risk[1] = "Some" =>
           LevelRank(r.risk_level) >= LevelRank(ClaimedMinimum(cli_args.min_risk[2]))
    /\ cli_args.command = "file" => EndsWith(r.file_path, cli_args.path)

\* C30: the filters of diff, pr and file take reviews out of entity_reviews
\* only: what is printed holds, in their order, exactly the reviews of the
\* analysis with risk_level >= the parsed minimum (Low for an unrecognised
\* string) and, for file, of the file asked for; stats and groups are those of
\* the unfiltered result.
C30_FiltersTouchReviewsOnly ==
    cli_pc = "done" =>
        \E result \in AnalyzeResults(a_graph, a_changes) :
            /\ cli_out.result.entity_reviews = SelectSeq(result.entity_reviews, Kept)
            /\ cli_out.result.stats = result.stats
            /\ cli_out.result.groups = result.groups

\* pr --min-risk HIGH printed a High review and dropped a lower one, with the
\* stats still counting both
C30_Witness ==
    /\ cli_pc = "done"
    /\ cli_args.command = "pr"
    /\ cli_args.min_risk = <<"Some", "HIGH">>
    /\ Len(cli_out.result.entity_reviews) = 1
    /\ cli_out.result.stats.total_entities = 2

\* file with an unrecognised minimum printed the reviews of its file only
C30_WitnessFile ==
    /\ cli_pc = "done"
    /\ cli_args.command = "file"
    /\ cli_args.min_risk = <<"Some", "bogus">>
    /\ Len(cli_out.result.entity_reviews) = 1
    /\ cli_out.result.stats.total_entities = 2

=============================================================================
